---- MODULE Spec2Model ----
(***************************************************************************)
(* The nRF24L01 driver's mode state machine (StandbyMode / RxMode /        *)
(* TxMode over a Device) together with the part of the chip the driver     *)
(* talks to: the CE line, the CONFIG and STATUS registers and the TX FIFO. *)
(* Every SPI transfer and every CE edge of the driver is one step; the     *)
(* chip acts between the steps.                                            *)
(***************************************************************************)
EXTENDS Integers, Sequences, FiniteSets, TLC

VARIABLES
    live,        \* the holders of the Device: wrappers "Standby","Rx","Tx", or "Caller" (the bare Device)
    pc,          \* position of the running call, "idle" between calls
    op,          \* the call that is running or ran last
    result,      \* "none" | "pending" | "Ok" | "Err" of op
    ret,         \* the value carried by an Ok result (booleans as 0/1, registers as bytes)
    ce,          \* level of the CE line
    config,      \* the Device's cached CONFIG register
    chipConfig,  \* the chip's CONFIG register
    txCount,     \* payloads in the chip's TX FIFO
    txDs,        \* chip STATUS.TX_DS
    maxRt,       \* chip STATUS.MAX_RT
    empty,       \* wait_empty's local `empty`
    status,      \* wait_empty's local `status` (the byte of the last FIFO_STATUS read)
    log,         \* driver events of the call, since its last FIFO_STATUS poll in wait_empty
    ceAtCall,    \* CE level when op was called
    txAtCall,    \* payloads in the TX FIFO when op was called
    flushed,     \* a FlushTx command was issued during this call
    sentSinceTx, \* a send was issued since the Tx wrapper was created
    arg,         \* the argument of op: a pipe number or the length of the data
    payload,     \* the Payload an Ok result carries (RxMode::read)
    noneRun,     \* consecutive can_read calls that returned None, no packet arriving between
    rxFifo,      \* packets in the chip's RX FIFO, head first
    rxDr,        \* chip STATUS.RX_DR
    pulsed,      \* CE fell while the chip was sending: the packet on air is completed
    base_config, \* NRF24L01.base_config
    ceValue,     \* NRF24L01.ce.value, the level the CEPin believes the line has
    ceSaved,     \* NRF24L01.ce.saved_value
    packets_left,\* NRF24L01::send's local `packets_left`
    counter,     \* NRF24L01::send's local `counter`
    observe,     \* NRF24L01::send's local `observe`
    count,       \* read_all's local `count`
    width,       \* the payload width read: read's `payload_width`, read_all's `width`
    scenario     \* the part of the API the program uses, where a run is held to one

vars == <<live, pc, op, result, ret, ce, config, chipConfig, txCount, txDs, maxRt,
          empty, status, log, ceAtCall, txAtCall, flushed, sentSinceTx,
          arg, payload, noneRun, rxFifo, rxDr, pulsed,
          base_config, ceValue, ceSaved, packets_left, counter, observe, count, width,
          scenario>>

chipVars == <<chipConfig, txCount, txDs, maxRt>>

\* The chip's receive side.
rxChip == <<rxFifo, rxDr>>

\* The fields and locals of the NRF24L01 struct's methods.
nrfVars == <<base_config, ceValue, ceSaved, packets_left, counter, observe, count, width>>

(***************************************************************************)
(* Bit fields of the one-byte registers (registers.rs, bitfield!).         *)
(***************************************************************************)
Pow2(i) == 2 ^ i

Bit(b, i) == (b \div Pow2(i)) % 2

SetBit(b, i, v) == b - Bit(b, i) * Pow2(i) + (IF v THEN Pow2(i) ELSE 0)

\* Register addresses
CONFIG_ADDR == 0
STATUS_ADDR == 7
OBSERVE_TX_ADDR == 8
FIFO_STATUS_ADDR == 23
RX_ADDR_P0 == 10

\* Config
prim_rx(c) == Bit(c, 0) = 1
pwr_up(c) == Bit(c, 1) = 1
set_prim_rx(c, v) == SetBit(c, 0, v)
set_pwr_up(c, v) == SetBit(c, 1, v)

\* Status
rx_dr(s) == Bit(s, 6) = 1
tx_ds(s) == Bit(s, 5) = 1
max_rt(s) == Bit(s, 4) = 1
set_rx_dr(s, v) == SetBit(s, 6, v)
set_tx_ds(s, v) == SetBit(s, 5, v)
set_max_rt(s, v) == SetBit(s, 4, v)

\* FifoStatus
tx_full(f) == Bit(f, 5) = 1
tx_empty(f) == Bit(f, 4) = 1

\* The TX FIFO holds at most three payloads.
TxFifoCap == 3

(***************************************************************************)
(* The chip's side of a transfer.  Every command shifts out the STATUS     *)
(* byte: RX_DR, TX_DS, MAX_RT, the pipe of the head of the RX FIFO (7 when *)
(* it is empty) and TX_FULL.                                               *)
(***************************************************************************)
B(x) == IF x THEN 1 ELSE 0

\* The RX FIFO has three levels, as the TX FIFO.
RxFifoCap == 3

RxPNo == IF rxFifo = <<>> THEN 7 ELSE Head(rxFifo).pipe

ChipStatus ==
    B(rxDr) * Pow2(6) + B(txDs) * Pow2(5) + B(maxRt) * Pow2(4) + RxPNo * Pow2(1)
        + B(txCount = TxFifoCap)

ChipFifoStatus ==
    B(txCount = TxFifoCap) * Pow2(5) + B(txCount = 0) * Pow2(4)
        + B(Len(rxFifo) = RxFifoCap) * Pow2(1) + B(rxFifo = <<>>)

\* The chip is a powered-up PTX with a payload to send and MAX_RT clear
\* ("TX won't continue while MAX_RT is set").
ChipTxReady ==
    /\ pwr_up(chipConfig)
    /\ ~prim_rx(chipConfig)
    /\ txCount > 0
    /\ ~maxRt

\* The chip transmits while CE is high, and completes the packet that a CE
\* pulse started.
ChipCanTx == (ce \/ pulsed) /\ ChipTxReady

\* CE falls: a packet on air is still completed.
ChipCeFall == pulsed' = (pulsed \/ (ce /\ ChipTxReady))

\* An ACK arrived: the payload leaves the TX FIFO and TX_DS is raised.
ChipAck ==
    /\ ChipCanTx
    /\ txCount' = txCount - 1
    /\ txDs' = TRUE
    /\ pulsed' = FALSE
    /\ UNCHANGED <<live, pc, op, result, ret, ce, config, chipConfig, maxRt,
                   empty, status, log, ceAtCall, txAtCall, flushed, sentSinceTx,
                   arg, payload, noneRun, rxChip, nrfVars, scenario>>

\* The retransmit budget ran out: MAX_RT is raised and the payload stays.
ChipMaxRt ==
    /\ ChipCanTx
    /\ maxRt' = TRUE
    /\ pulsed' = FALSE
    /\ UNCHANGED <<live, pc, op, result, ret, ce, config, chipConfig, txCount, txDs,
                   empty, status, log, ceAtCall, txAtCall, flushed, sentSinceTx,
                   arg, payload, noneRun, rxChip, nrfVars, scenario>>

ChipTx == ChipAck \/ ChipMaxRt

(***************************************************************************)
(* Driver events.                                                          *)
(***************************************************************************)
Ev(k, a, v, st, ok) == [k |-> k, a |-> a, v |-> v, st |-> st, ok |-> ok, d |-> <<>>]

EvRead(a, v, st, ok) == Ev("ReadRegister", a, IF ok THEN v ELSE 0, IF ok THEN st ELSE 0, ok)
\* The status byte is recorded for the reads; the driver drops the one a
\* write or a command without response shifts out.
EvWrite(a, v, st, ok) == Ev("WriteRegister", a, v, 0, ok)
EvCmd(k, st, ok) == Ev(k, 0, 0, 0, ok)
EvCe(level) == Ev(IF level THEN "ce_enable" ELSE "ce_disable", 0, 0, 0, TRUE)
\* A payload command: a is the pipe it names, v the number of data bytes
\* clocked after the command byte.
EvPayload(k, a, n, st, ok) == Ev(k, a, n, 0, ok)
\* A payload read: v is the number of bytes clocked after the command byte
\* and d the bytes the chip answered with.
EvData(k, n, bytes, ok) ==
    [k |-> k, a |-> 0, v |-> n, st |-> 0, ok |-> ok, d |-> IF ok THEN bytes ELSE <<>>]

IsBus(e) == e.k \notin {"ce_enable", "ce_disable"}

Last(q) == q[Len(q)]

\* The outcomes of one SPI transfer, <<ok, hit>>: it succeeded, or it failed
\* with the command not acted on by the chip, or it failed after the chip
\* had taken the command.
Transfers == {<<TRUE, TRUE>>, <<FALSE, FALSE>>, <<FALSE, TRUE>>}

Idle == pc = "idle"

\* Payload::new(source): 32 bytes of storage and the length, at most 32.
PayloadCap == 32

PayloadNew_Short(source) ==
    LET len == IF Len(source) < PayloadCap - 1 THEN Len(source) ELSE PayloadCap - 1
    IN [data |-> [i \in 1..PayloadCap |-> IF i <= len THEN source[i] ELSE 0], len |-> len]

PayloadNew(source) ==
    LET len == IF Len(source) < PayloadCap THEN Len(source) ELSE PayloadCap
    IN [data |-> [i \in 1..PayloadCap |-> IF i <= len THEN source[i] ELSE 0], len |-> len]

\* Payload::as_ref
as_ref(p) == SubSeq(p.data, 1, p.len)

\* The Payload of a call that returns none.
NoPayload == PayloadNew(<<>>)

\* A call starts: its name and argument, a pending result, an empty event log.
BeginArg(name, first, a) ==
    /\ Idle
    /\ op' = name
    /\ arg' = a
    /\ result' = "pending"
    /\ ret' = 0
    /\ payload' = NoPayload
    /\ noneRun' = IF name = "can_read" THEN noneRun ELSE 0
    /\ log' = <<>>
    /\ ceAtCall' = ce
    /\ txAtCall' = txCount
    /\ pc' = first
    /\ scenario' = scenario

Begin(name, first) == BeginArg(name, first, 0)

\* A step inside a call.
At(l) == pc = l /\ UNCHANGED <<op, arg, ceAtCall, txAtCall, scenario>>

Goto(l) == pc' = l /\ UNCHANGED <<result, ret, payload, noneRun>>

\* A call returns.
Return(res, val) == pc' = "idle" /\ result' = res /\ ret' = val /\ UNCHANGED <<payload, noneRun>>

(***************************************************************************)
(* Device                                                                  *)
(***************************************************************************)
ce_enable == ce' = TRUE /\ log' = Append(log, EvCe(TRUE))

ce_disable == ce' = FALSE /\ log' = Append(log, EvCe(FALSE)) /\ ChipCeFall

\* update_config(f): f is applied to the cached CONFIG, which is written to
\* the chip only if it changed.  new is f's result on the cache, t the
\* outcome of the transfer if one is made.
update_config(new, t) ==
    /\ config' = new
    /\ IF new # config
         THEN /\ log' = Append(log, EvWrite(CONFIG_ADDR, new, ChipStatus, t[1]))
              /\ chipConfig' = IF t[2] THEN new ELSE chipConfig
         ELSE /\ log' = log
              /\ chipConfig' = chipConfig

update_config_ok(new, t) == new = config \/ t[1]

\* read_register::<FifoStatus>(): the log records (status, fifo_status).
read_fifo_status(ok) == EvRead(FIFO_STATUS_ADDR, ChipFifoStatus, ChipStatus, ok)

\* write_register(Status(v)) on the chip: the interrupt bits are write-1-to-clear.
ChipWriteStatus(v) ==
    /\ rxDr' = (rxDr /\ ~rx_dr(v))
    /\ txDs' = (txDs /\ ~tx_ds(v))
    /\ maxRt' = (maxRt /\ ~max_rt(v))

(***************************************************************************)
(* StandbyMode                                                             *)
(***************************************************************************)
\* StandbyMode::power_up(device), called with the bare Device.
CallPowerUp ==
    /\ "Caller" \in live
    /\ Begin("power_up", "pu_cfg")
    /\ UNCHANGED <<live, ce, config, chipVars, empty, status, sentSinceTx, flushed, rxChip, pulsed, nrfVars>>

PowerUpCfg ==
    /\ At("pu_cfg")
    /\ \E t \in Transfers :
         /\ update_config(set_pwr_up(config, TRUE), t)
         /\ IF update_config_ok(set_pwr_up(config, TRUE), t)
              THEN live' = {"Standby"} /\ Return("Ok", 0)
              ELSE live' = {"Caller"} /\ Return("Err", 0)
    /\ UNCHANGED <<ce, txCount, txDs, maxRt, empty, status, sentSinceTx, flushed, rxChip, pulsed, nrfVars>>

\* Mutant: from_rx_tx that leaves CE as it is.
from_rx_tx_NoCeDisable == UNCHANGED <<ce, log, pulsed>> /\ live' = {"Standby"}

\* StandbyMode::from_rx_tx(device)
from_rx_tx == ce_disable /\ live' = {"Standby"}

\* StandbyMode::rx(self)
CallRx ==
    /\ "Standby" \in live
    /\ Begin("rx", "rx_cfg")
    /\ UNCHANGED <<live, ce, config, chipVars, empty, status, sentSinceTx, flushed, rxChip, pulsed, nrfVars>>

\* Mutant: rx() that goes on to raise CE when update_config failed.
RxCfg_IgnoreError ==
    /\ At("rx_cfg")
    /\ \E t \in Transfers :
         /\ update_config(set_prim_rx(config, TRUE), t)
         /\ live' = live /\ Goto("rx_ce")
    /\ UNCHANGED <<ce, txCount, txDs, maxRt, empty, status, sentSinceTx, flushed, rxChip, pulsed, nrfVars>>

RxCfg ==
    /\ At("rx_cfg")
    /\ \E t \in Transfers :
         /\ update_config(set_prim_rx(config, TRUE), t)
         /\ IF update_config_ok(set_prim_rx(config, TRUE), t)
              THEN live' = live /\ Goto("rx_ce")
              ELSE live' = {"Caller"} /\ Return("Err", 0)
    /\ UNCHANGED <<ce, txCount, txDs, maxRt, empty, status, sentSinceTx, flushed, rxChip, pulsed, nrfVars>>

\* Mutant: rx() that leaves the Standby wrapper alive beside the Rx wrapper.
RxCe_KeepStandby ==
    /\ At("rx_ce")
    /\ ce_enable
    /\ live' = live \cup {"Rx"}
    /\ Return("Ok", 0)
    /\ UNCHANGED <<config, chipVars, empty, status, sentSinceTx, flushed, rxChip, pulsed, nrfVars>>

RxCe ==
    /\ At("rx_ce")
    /\ ce_enable
    /\ live' = {"Rx"}
    /\ Return("Ok", 0)
    /\ UNCHANGED <<config, chipVars, empty, status, sentSinceTx, flushed, rxChip, pulsed, nrfVars>>

\* StandbyMode::tx(self)
CallTx ==
    /\ "Standby" \in live
    /\ Begin("tx", "tx_cfg")
    /\ UNCHANGED <<live, ce, config, chipVars, empty, status, sentSinceTx, flushed, rxChip, pulsed, nrfVars>>

\* Mutant: tx() that raises CE once CONFIG is set.
TxCfg_RaiseCe ==
    /\ At("tx_cfg")
    /\ \E t \in Transfers :
         /\ update_config(set_prim_rx(config, FALSE), t)
         /\ IF update_config_ok(set_prim_rx(config, FALSE), t)
              THEN ce' = TRUE /\ live' = {"Tx"} /\ sentSinceTx' = FALSE /\ Return("Ok", 0)
              ELSE ce' = ce /\ live' = {"Caller"} /\ sentSinceTx' = sentSinceTx /\ Return("Err", 0)
    /\ UNCHANGED <<txCount, txDs, maxRt, empty, status, flushed, rxChip, pulsed, nrfVars>>

TxCfg ==
    /\ At("tx_cfg")
    /\ \E t \in Transfers :
         /\ update_config(set_prim_rx(config, FALSE), t)
         /\ IF update_config_ok(set_prim_rx(config, FALSE), t)
              THEN live' = {"Tx"} /\ sentSinceTx' = FALSE /\ Return("Ok", 0)
              ELSE live' = {"Caller"} /\ sentSinceTx' = sentSinceTx /\ Return("Err", 0)
    /\ UNCHANGED <<ce, txCount, txDs, maxRt, empty, status, flushed, rxChip, pulsed, nrfVars>>

(***************************************************************************)
(* RxMode                                                                  *)
(***************************************************************************)
\* RxMode::standby(self): no transfer, cannot fail.
CallRxStandby ==
    /\ "Rx" \in live
    /\ Begin("rx_standby", "rxsb_from")
    /\ UNCHANGED <<live, ce, config, chipVars, empty, status, sentSinceTx, flushed, rxChip, pulsed, nrfVars>>

RxStandbyFrom ==
    /\ At("rxsb_from")
    /\ from_rx_tx
    /\ Return("Ok", 0)
    /\ UNCHANGED <<config, chipVars, empty, status, sentSinceTx, flushed, rxChip, nrfVars>>

\* A panic ends the program.
Panic ==
    /\ pc' = "panic"
    /\ result' = "Panic"
    /\ live' = {}
    /\ UNCHANGED <<ret, payload, noneRun>>

\* Is there any incoming data to read?  can_read(): Option<u8> as a number,
\* None below every pipe number.
None == 0 - 1

\* Status.rx_p_no, FifoStatus.rx_empty / rx_full
rx_p_no(s) == (s \div Pow2(1)) % 8
rx_empty(f) == Bit(f, 0) = 1
rx_full(f) == Bit(f, 1) = 1

CallCanRead ==
    /\ "Rx" \in live
    /\ Begin("can_read", "cr_clear")
    /\ UNCHANGED <<live, ce, config, chipVars, empty, status, sentSinceTx, flushed, rxChip, pulsed, nrfVars>>

\* clear.set_rx_dr(true); clear.set_tx_ds(true); clear.set_max_rt(true);
CanReadClearValue == set_max_rt(set_tx_ds(set_rx_dr(0, TRUE), TRUE), TRUE)

\* self.device.write_register(clear)?
CanReadClear ==
    /\ At("cr_clear")
    /\ \E t \in Transfers :
         /\ log' = Append(log, EvWrite(STATUS_ADDR, CanReadClearValue, ChipStatus, t[1]))
         /\ IF t[2] THEN ChipWriteStatus(CanReadClearValue) ELSE UNCHANGED <<rxDr, txDs, maxRt>>
         /\ IF t[1] THEN Goto("cr_fifo")
                    ELSE pc' = "idle" /\ result' = "Err" /\ ret' = 0 /\ payload' = payload
                         /\ noneRun' = 0
    /\ UNCHANGED <<live, ce, config, chipConfig, txCount, empty, status, sentSinceTx, flushed,
                   rxFifo, pulsed, nrfVars>>

\* Mutant: can_read that looks at RX_FULL in place of RX_EMPTY.
CanReadValue_RxFull(st, fifo_status) == IF rx_full(fifo_status) THEN rx_p_no(st) ELSE None

\* if !fifo_status.rx_empty() { Some(status.rx_p_no()) } else { None }
CanReadValue(st, fifo_status) == IF ~rx_empty(fifo_status) THEN rx_p_no(st) ELSE None

\* The longest run of can_read calls returning None that is counted.
NoneRunCap == 2

\* Mutant: can_read that leaves receive mode's CE high level.
CanReadFifo_CeLow ==
    /\ At("cr_fifo")
    /\ ce' = FALSE
    /\ \E ok \in BOOLEAN :
         /\ log' = Append(log, read_fifo_status(ok))
         /\ pc' = "idle"
         /\ payload' = payload
         /\ result' = IF ok THEN "Ok" ELSE "Err"
         /\ ret' = IF ok THEN CanReadValue(ChipStatus, ChipFifoStatus) ELSE 0
         /\ noneRun' = IF ok /\ CanReadValue(ChipStatus, ChipFifoStatus) = None
                         THEN (IF noneRun < NoneRunCap THEN noneRun + 1 ELSE noneRun)
                         ELSE 0
    /\ UNCHANGED <<live, config, chipVars, empty, status, sentSinceTx, flushed, rxChip, pulsed, nrfVars>>

\* self.device.read_register::<FifoStatus>().map(|(status, fifo_status)| ..)
CanReadFifo ==
    /\ At("cr_fifo")
    /\ \E ok \in BOOLEAN :
         /\ log' = Append(log, read_fifo_status(ok))
         /\ pc' = "idle"
         /\ payload' = payload
         /\ result' = IF ok THEN "Ok" ELSE "Err"
         /\ ret' = IF ok THEN CanReadValue(ChipStatus, ChipFifoStatus) ELSE 0
         /\ noneRun' = IF ok /\ CanReadValue(ChipStatus, ChipFifoStatus) = None
                         THEN (IF noneRun < NoneRunCap THEN noneRun + 1 ELSE noneRun)
                         ELSE 0
    /\ UNCHANGED <<live, ce, config, chipVars, empty, status, sentSinceTx, flushed, rxChip, pulsed, nrfVars>>

\* has_carrier / is_empty / is_full: one register read each.
RxQueries == {"has_carrier", "rx_is_empty", "rx_is_full"}

CD_ADDR == 9

CallRxQuery ==
    /\ "Rx" \in live
    /\ \E q \in RxQueries : Begin(q, "rq_read")
    /\ UNCHANGED <<live, ce, config, chipVars, empty, status, sentSinceTx, flushed, rxChip, pulsed, nrfVars>>

RxQueryRead ==
    /\ At("rq_read")
    /\ \E ok \in BOOLEAN, cd \in {0, 1} :
         /\ log' = Append(log, IF op = "has_carrier"
                                 THEN EvRead(CD_ADDR, cd, ChipStatus, ok)
                                 ELSE read_fifo_status(ok))
         /\ IF ok
              THEN Return("Ok", CASE op = "has_carrier" -> cd
                                  [] op = "rx_is_empty" -> B(rx_empty(ChipFifoStatus))
                                  [] op = "rx_is_full" -> B(rx_full(ChipFifoStatus)))
              ELSE Return("Err", 0)
    /\ UNCHANGED <<live, ce, config, chipVars, empty, status, sentSinceTx, flushed, rxChip, pulsed, nrfVars>>

\* The width the chip answers ReadRxPayloadWidth with.
ChipRxWidth == IF rxFifo = <<>> THEN 0 ELSE Head(rxFifo).w

\* ReadRxPayload: the head of the RX FIFO is deleted once it is read.
ChipRxPop == IF rxFifo = <<>> THEN <<>> ELSE Tail(rxFifo)

\* The bytes the chip shifts out after the status byte when n bytes are
\* clocked: the payload of the head packet, then zeroes.
ChipRxBytes(n) ==
    [i \in 1..n |-> IF rxFifo # <<>> /\ i <= Head(rxFifo).w /\ i <= PayloadCap
                      THEN (Head(rxFifo).w + Head(rxFifo).pipe + i) % 256
                      ELSE 0]

\* RxMode::read()
CallRead ==
    /\ "Rx" \in live
    /\ Begin("read", "rd_width")
    /\ UNCHANGED <<live, ce, config, chipVars, empty, status, sentSinceTx, flushed, rxChip, pulsed, nrfVars>>

\* let (_, payload_width) = self.device.send_command(&ReadRxPayloadWidth)?;
ReadWidth ==
    /\ At("rd_width")
    /\ \E ok \in BOOLEAN :
         /\ log' = Append(log, Ev("ReadRxPayloadWidth", 0, IF ok THEN ChipRxWidth ELSE 0,
                                  0, ok))
         /\ IF ok THEN width' = ChipRxWidth /\ Goto("rd_payload")
                  ELSE width' = width /\ Return("Err", 0)
    /\ UNCHANGED <<live, ce, config, chipVars, empty, status, sentSinceTx, flushed, rxChip, pulsed,
                   base_config, ceValue, ceSaved, packets_left, counter, observe, count>>

\* Mutant: a read command one byte short of the reported width.
ReadLen_Short(payload_width) == IF payload_width > 0 THEN payload_width - 1 ELSE 0

\* ReadRxPayload::new(payload_width as usize): len() is 1 + payload_width.
ReadLen(payload_width) == payload_width

\* self.device.send_command(&ReadRxPayload::new(payload_width as usize))?;
\* the response is Payload::new(&data[1..]).
ReadPayload ==
    /\ At("rd_payload")
    /\ \E t \in Transfers :
         /\ log' = Append(log, EvData("ReadRxPayload", ReadLen(width),
                                      ChipRxBytes(ReadLen(width)), t[1]))
         /\ rxFifo' = IF t[2] THEN ChipRxPop ELSE rxFifo
         /\ pc' = "idle"
         /\ ret' = 0
         /\ noneRun' = noneRun
         /\ result' = IF t[1] THEN "Ok" ELSE "Err"
         /\ payload' = IF t[1] THEN PayloadNew(ChipRxBytes(ReadLen(width))) ELSE payload
    /\ UNCHANGED <<live, ce, config, chipVars, empty, status, sentSinceTx, flushed, rxDr, pulsed, nrfVars>>

(***************************************************************************)
(* Configuration                                                           *)
(***************************************************************************)
\* The pipe numbers set_rx_addr is called with.
PipeArgs == {0, 1, 5, 6}

\* set_rx_addr(pipe_no, addr), on any of the wrappers.
CallSetRxAddr ==
    /\ live \cap {"Standby", "Rx", "Tx"} # {}
    /\ \E p \in PipeArgs : BeginArg("set_rx_addr", "sra_write", p)
    /\ UNCHANGED <<live, ce, config, chipVars, empty, status, sentSinceTx, flushed, rxChip, pulsed, nrfVars>>

\* match pipe_no { 0..=5 => self.device().write_register(register)?,
\*                 _ => panic!("No such pipe {}", pipe_no) }
SetRxAddrWrite ==
    /\ At("sra_write")
    /\ IF arg <= 5
         THEN \E ok \in BOOLEAN :
                /\ log' = Append(log, EvWrite(RX_ADDR_P0 + arg, 0, ChipStatus, ok))
                /\ live' = live
                /\ Return(IF ok THEN "Ok" ELSE "Err", 0)
         ELSE log' = log /\ Panic
    /\ UNCHANGED <<ce, config, chipVars, empty, status, sentSinceTx, flushed, rxChip, pulsed, nrfVars>>

(***************************************************************************)
(* TxMode                                                                  *)
(***************************************************************************)
\* is_empty / is_full / can_send: one FIFO_STATUS read each.
TxQueries == {"is_empty", "is_full", "can_send"}

TxQueryValue(name, f) ==
    CASE name = "is_empty" -> B(tx_empty(f))
      [] name = "is_full" -> B(tx_full(f))
      [] name = "can_send" -> B(~tx_full(f))

CallTxQuery ==
    /\ "Tx" \in live
    /\ \E q \in TxQueries : Begin(q, "q_read")
    /\ UNCHANGED <<live, ce, config, chipVars, empty, status, sentSinceTx, flushed, rxChip, pulsed, nrfVars>>

TxQueryRead ==
    /\ At("q_read")
    /\ \E ok \in BOOLEAN :
         /\ log' = Append(log, read_fifo_status(ok))
         /\ IF ok THEN Return("Ok", TxQueryValue(op, ChipFifoStatus))
                  ELSE Return("Err", 0)
    /\ UNCHANGED <<live, ce, config, chipVars, empty, status, sentSinceTx, flushed, rxChip, pulsed, nrfVars>>

\* The lengths of the data slices given to send and push.
DataLens == {0, 1, 32, 33}

\* TxMode::send(packet)
CallSend ==
    /\ "Tx" \in live
    /\ \E n \in DataLens : BeginArg("send", "send_write", n)
    /\ sentSinceTx' = TRUE
    /\ UNCHANGED <<live, ce, config, chipVars, empty, status, flushed, rxChip, pulsed, nrfVars>>

\* send_command(&WriteTxPayload::new(packet))?: the chip queues the payload
\* if its TX FIFO has room.
\* Mutant: send() that raises CE before the payload write is known to have
\* succeeded.
SendWrite_CeFirst ==
    /\ At("send_write")
    /\ ce' = TRUE
    /\ \E t \in Transfers :
         /\ log' = Append(log, EvPayload("WriteTxPayload", 0, arg, ChipStatus, t[1]))
         /\ txCount' = IF t[2] /\ txCount < TxFifoCap THEN txCount + 1 ELSE txCount
         /\ IF t[1] THEN Goto("send_ce") ELSE Return("Err", 0)
    /\ UNCHANGED <<live, config, chipConfig, txDs, maxRt, empty, status, sentSinceTx, flushed, rxChip, pulsed, nrfVars>>

SendWrite ==
    /\ At("send_write")
    /\ \E t \in Transfers :
         /\ log' = Append(log, EvPayload("WriteTxPayload", 0, arg, ChipStatus, t[1]))
         /\ txCount' = IF t[2] /\ txCount < TxFifoCap THEN txCount + 1 ELSE txCount
         /\ IF t[1] THEN Goto("send_ce") ELSE Return("Err", 0)
    /\ UNCHANGED <<live, ce, config, chipConfig, txDs, maxRt, empty, status, sentSinceTx, flushed, rxChip, pulsed, nrfVars>>

SendCe ==
    /\ At("send_ce")
    /\ ce_enable
    /\ Return("Ok", 0)
    /\ UNCHANGED <<live, config, chipVars, empty, status, sentSinceTx, flushed, rxChip, pulsed, nrfVars>>

\* TxMode::wait_empty(), called directly or by TxMode::standby(self).
WaitOps == {"wait_empty", "tx_standby"}

\* Mutant: standby() that does not call wait_empty.
FirstPc_SkipWait(name) == IF name = "tx_standby" THEN "sb_from" ELSE "we_read"

FirstPc(name) == "we_read"

CallWait ==
    /\ "Tx" \in live
    /\ \E w \in WaitOps : Begin(w, FirstPc(w))
    /\ empty' = FALSE
    /\ flushed' = FALSE
    /\ UNCHANGED <<live, ce, config, chipVars, status, sentSinceTx, rxChip, pulsed, nrfVars>>

\* wait_empty failed: `?` returns the error.  In standby(self) the TxMode
\* value, and the Device in it, is dropped with it.
WaitErr ==
    /\ Return("Err", 0)
    /\ live' = IF op = "tx_standby" THEN {} ELSE live

\* Mutant: the loop leaves without looking at `empty`.
LoopHead_NoEmptyCheck == "we_done"

\* while !empty
LoopHead == IF empty THEN "we_done" ELSE "we_read"

\* let (status, fifo_status) = read_register::<FifoStatus>()?;
\* empty = fifo_status.tx_empty();
WeRead ==
    /\ At("we_read")
    /\ \E ok \in BOOLEAN :
         /\ log' = <<read_fifo_status(ok)>>
         /\ IF ok
              THEN /\ status' = ChipStatus
                   /\ empty' = tx_empty(ChipFifoStatus)
                   /\ live' = live
                   /\ Goto("we_ce")
              ELSE /\ UNCHANGED <<status, empty>>
                   /\ WaitErr
    /\ UNCHANGED <<ce, config, chipVars, sentSinceTx, flushed, rxChip, pulsed, nrfVars>>

\* Mutant: wait_empty that does not look at MAX_RT.
WeCe_NoMaxRtCheck ==
    /\ At("we_ce")
    /\ IF ~empty THEN ce_enable ELSE UNCHANGED <<ce, log>>
    /\ Goto(LoopHead)
    /\ UNCHANGED <<live, config, chipVars, empty, status, sentSinceTx, flushed, rxChip, pulsed, nrfVars>>

\* if !empty { ce_enable() }; if status.max_rt() { ... }
WeCe ==
    /\ At("we_ce")
    /\ IF ~empty THEN ce_enable ELSE UNCHANGED <<ce, log>>
    /\ Goto(IF max_rt(status) THEN "we_flush" ELSE LoopHead)
    /\ UNCHANGED <<live, config, chipVars, empty, status, sentSinceTx, flushed, rxChip, pulsed, nrfVars>>

\* Mutant: the MAX_RT branch without the FlushTx command.
WeFlush_Omitted ==
    /\ At("we_flush")
    /\ Goto("we_clear")
    /\ UNCHANGED <<live, ce, config, chipVars, empty, status, log, sentSinceTx, flushed, rxChip, pulsed, nrfVars>>

\* send_command(&FlushTx)?
WeFlush ==
    /\ At("we_flush")
    /\ \E t \in Transfers :
         /\ log' = Append(log, EvCmd("FlushTx", ChipStatus, t[1]))
         /\ txCount' = IF t[2] THEN 0 ELSE txCount
         /\ IF t[1]
              THEN flushed' = TRUE /\ live' = live /\ Goto("we_clear")
              ELSE flushed' = flushed /\ WaitErr
    /\ UNCHANGED <<ce, config, chipConfig, txDs, maxRt, empty, status, sentSinceTx, rxChip, pulsed, nrfVars>>

\* clear.set_tx_ds(true); clear.set_max_rt(true); write_register(clear)?
ClearValue == set_max_rt(set_tx_ds(0, TRUE), TRUE)

WeClear ==
    /\ At("we_clear")
    /\ \E t \in Transfers :
         /\ log' = Append(log, EvWrite(STATUS_ADDR, ClearValue, ChipStatus, t[1]))
         /\ IF t[2] THEN ChipWriteStatus(ClearValue) ELSE UNCHANGED <<rxDr, txDs, maxRt>>
         /\ IF t[1] THEN live' = live /\ Goto(LoopHead) ELSE WaitErr
    /\ UNCHANGED <<ce, config, chipConfig, txCount, empty, status, sentSinceTx, flushed, rxFifo, pulsed, nrfVars>>

\* Mutant: wait_empty that reports a flush as an error.
WeDone_ReportsFlush ==
    /\ At("we_done")
    /\ ce_disable
    /\ IF flushed THEN Return("Err", 0)
       ELSE IF op = "tx_standby" THEN Goto("sb_from") ELSE Return("Ok", 0)
    /\ UNCHANGED <<live, config, chipVars, empty, status, sentSinceTx, flushed, rxChip, nrfVars>>

\* ce_disable(); Ok(())  -- and, in standby(self), on to from_rx_tx.
WeDone ==
    /\ At("we_done")
    /\ ce_disable
    /\ IF op = "tx_standby" THEN Goto("sb_from") ELSE Return("Ok", 0)
    /\ UNCHANGED <<live, config, chipVars, empty, status, sentSinceTx, flushed, rxChip, nrfVars>>

\* Ok(StandbyMode::from_rx_tx(self.device))
TxStandbyFrom ==
    /\ At("sb_from")
    /\ from_rx_tx
    /\ Return("Ok", 0)
    /\ UNCHANGED <<config, chipVars, empty, status, sentSinceTx, flushed, rxChip, nrfVars>>

\* TxMode::observe(): one OBSERVE_TX read; the counters are the chip's.
ObserveVals == {0, 3, 19}

CallObserve ==
    /\ "Tx" \in live
    /\ Begin("observe", "obs_read")
    /\ UNCHANGED <<live, ce, config, chipVars, empty, status, sentSinceTx, flushed, rxChip, pulsed, nrfVars>>

ObserveRead ==
    /\ At("obs_read")
    /\ \E ok \in BOOLEAN, v \in ObserveVals :
         /\ log' = Append(log, EvRead(OBSERVE_TX_ADDR, v, ChipStatus, ok))
         /\ IF ok THEN Return("Ok", v) ELSE Return("Err", 0)
    /\ UNCHANGED <<live, ce, config, chipVars, empty, status, sentSinceTx, flushed, rxChip, pulsed, nrfVars>>

(***************************************************************************)
(* The system                                                              *)
(***************************************************************************)
\* After NRF24L01::new: CE low, CONFIG written with EN_CRC and then PWR_UP,
\* Standby returned.  The chip's FIFOs and interrupt flags are at reset.
InitConfig == set_pwr_up(SetBit(0, 3, TRUE), TRUE)

Init ==
    /\ live = {"Standby"}
    /\ pc = "idle"
    /\ op = "new"
    /\ result = "Ok"
    /\ ret = 0
    /\ ce = FALSE
    /\ config = InitConfig
    /\ chipConfig = InitConfig
    /\ txCount = 0
    /\ txDs = FALSE
    /\ maxRt = FALSE
    /\ empty = FALSE
    /\ status = 0
    /\ log = <<>>
    /\ ceAtCall = FALSE
    /\ txAtCall = 0
    /\ flushed = FALSE
    /\ sentSinceTx = FALSE
    /\ arg = 0
    /\ payload = NoPayload
    /\ noneRun = 0
    /\ rxFifo = <<>>
    /\ rxDr = FALSE
    /\ pulsed = FALSE
    /\ base_config = 0
    /\ ceValue = FALSE
    /\ ceSaved = FALSE
    /\ packets_left = FALSE
    /\ counter = 0
    /\ observe = 0
    /\ count = 0
    /\ width = 0
    /\ scenario = "any"

Call ==
    \/ CallPowerUp
    \/ CallRx
    \/ CallTx
    \/ CallRxStandby
    \/ CallTxQuery
    \/ CallSend
    \/ CallWait
    \/ CallObserve

DriverStep ==
    \/ PowerUpCfg
    \/ RxCfg
    \/ RxCe
    \/ TxCfg
    \/ RxStandbyFrom
    \/ TxQueryRead
    \/ SendWrite
    \/ SendCe
    \/ WeRead
    \/ WeCe
    \/ WeFlush
    \/ WeClear
    \/ WeDone
    \/ TxStandbyFrom
    \/ ObserveRead

Next == Call \/ DriverStep \/ ChipTx

Spec == Init /\ [][Next]_vars

\* A running call keeps executing (the driver is synchronous and
\* single-threaded), and a chip that can transmit ends the transmission of
\* the head-of-line packet, with an ACK or with MAX_RT.
SpecFair == Spec /\ WF_vars(DriverStep) /\ WF_vars(ChipTx)

(***************************************************************************)
(* NRF24L01 (lib.rs): one struct holding the CE pin, the SPI device and    *)
(* base_config, driving the same chip.                                     *)
(***************************************************************************)
\* Register addresses of lib.rs beside CONFIG, STATUS, OBSERVE_TX, FIFO_STATUS.
EN_AA == 1
EN_RXADDR == 2
SETUP_RETR == 4
RF_CH == 5
RF_SETUP == 6
TX_ADDR == 16
DYNPD == 28
FEATURE == 29

\* The messages of the anyhow errors; every failed transfer and every failed
\* pin write gives the first.
BusErrorMsg == "Err"
QueueFullMsg == "Sending queue is full!"
TooBigMsg == "Packet too big!"
MaxRetriesMsg == "Maximum number of retries reached!"

\* The state of the mode wrappers, which NRF24L01 does not have.
tsVars == <<config, empty, sentSinceTx>>

\* CEPin::up / CEPin::down: the pin is written, then `value` is set.
CePinSet(level, ok) ==
    IF ok
      THEN /\ ce' = level
           /\ ceValue' = level
           /\ log' = Append(log, EvCe(level))
           /\ IF level THEN pulsed' = pulsed ELSE ChipCeFall
      ELSE UNCHANGED <<ce, ceValue, log, pulsed>>

\* What a register write does to the chip.
ChipWrite(a, v, hit) ==
    /\ chipConfig' = IF hit /\ a = CONFIG_ADDR THEN v ELSE chipConfig
    /\ IF hit /\ a = STATUS_ADDR
         THEN ChipWriteStatus(v)
         ELSE UNCHANGED <<rxDr, txDs, maxRt>>

\* write_register(register, byte)
NrfWrite(a, v, t) ==
    /\ log' = Append(log, EvWrite(a, v, ChipStatus, t[1]))
    /\ ChipWrite(a, v, t[2])

\* A call of a method of NRF24L01; the locals of the methods exist from
\* their declaration on and are zero before.
\* The argument of a method that takes none (the methods' arguments are
\* records).
NoArg == [pipe_num |-> 0, len |-> 0]

NrfCall(name, first, a) ==
    /\ "NRF24L01" \in live
    /\ BeginArg(name, first, a)
    /\ flushed' = FALSE
    /\ status' = 0
    /\ packets_left' = FALSE
    /\ counter' = 0
    /\ observe' = 0
    /\ count' = 0
    /\ width' = 0
    /\ UNCHANGED <<live, ce, chipVars, tsVars, rxChip, pulsed, base_config, ceValue, ceSaved>>

\* is_receiver()
is_receiver == Bit(base_config, 0) = 1

(* configure(mode) *)
\* The RXConfig / TXConfig values configure is called with; pipes are the
\* pipes 1..5 that are Some.
ConfigArgs ==
    { [mode |-> "RX", rate |-> "R1Mbps", level |-> "Min", channel |-> 0,
       pipes |-> {}, max_retries |-> 0, retry_delay |-> 0],
      [mode |-> "RX", rate |-> "R250Kbps", level |-> "Max", channel |-> 200,
       pipes |-> {1, 3}, max_retries |-> 0, retry_delay |-> 0],
      [mode |-> "TX", rate |-> "R2Mbps", level |-> "Low", channel |-> 108,
       pipes |-> {}, max_retries |-> 3, retry_delay |-> 2] }

Reg(a, v) == [a |-> a, v |-> v]

\* setup_rf(rate, level)
setup_rf(rate, level) ==
    LET rate_bits == CASE rate = "R250Kbps" -> 32
                       [] rate = "R1Mbps" -> 0
                       [] rate = "R2Mbps" -> 8
        level_bits == CASE level = "Min" -> 0
                        [] level = "Low" -> 2
                        [] level = "High" -> 4
                        [] level = "Max" -> 6
    IN Reg(RF_SETUP, rate_bits + level_bits)

\* Mutant: a set_channel without the cap.
set_channel_NoCap(channel) == Reg(RF_CH, channel)

\* set_channel(channel)
set_channel(channel) == Reg(RF_CH, IF channel < 126 THEN channel ELSE 125)

\* The register writes of configure_receiver, and the base config it returns.
configure_receiver(m) ==
    LET lsb(i) == IF i \in m.pipes THEN <<Reg(RX_ADDR_P0 + i, 0)>> ELSE <<>>
        enabled == 1 + B(1 \in m.pipes) * 2 + B(2 \in m.pipes) * 4 + B(3 \in m.pipes) * 8
                     + B(4 \in m.pipes) * 16 + B(5 \in m.pipes) * 32
    IN <<setup_rf(m.rate, m.level), set_channel(m.channel), Reg(RX_ADDR_P0, 0)>>
         \o lsb(1) \o lsb(2) \o lsb(3) \o lsb(4) \o lsb(5)
         \o <<Reg(EN_RXADDR, enabled)>>

ReceiverBase == 61

\* Mutant: retransmission settings packed without the limits.
configure_transmitter_NoClamp(m) ==
    <<setup_rf(m.rate, m.level), set_channel(m.channel), Reg(RX_ADDR_P0, 0),
      Reg(TX_ADDR, 0), Reg(EN_RXADDR, 1),
      Reg(SETUP_RETR, ((m.retry_delay * 16) % 256) + (m.max_retries % 16))>>

\* The register writes of configure_transmitter, and the base config it returns.
configure_transmitter(m) ==
    LET retry_bits == IF m.max_retries < 16 THEN m.max_retries ELSE 15
        retry_delay_bits == IF m.retry_delay < 16 THEN (m.retry_delay * 16) % 256 ELSE 240
    IN <<setup_rf(m.rate, m.level), set_channel(m.channel), Reg(RX_ADDR_P0, 0),
         Reg(TX_ADDR, 0), Reg(EN_RXADDR, 1), Reg(SETUP_RETR, retry_delay_bits + retry_bits)>>

TransmitterBase == 76

\* All register writes of configure before power_up, in program order.
ConfigWrites(m) ==
    <<Reg(EN_AA, 63), Reg(DYNPD, 63), Reg(FEATURE, 6)>>
        \o (IF m.mode = "RX" THEN configure_receiver(m) ELSE configure_transmitter(m))

CallConfigure == \E m \in ConfigArgs : NrfCall("configure", "cfg_down", m)

\* self.ce.down()?
CfgDown ==
    /\ At("cfg_down")
    /\ \E ok \in BOOLEAN :
         /\ CePinSet(FALSE, ok)
         /\ IF ok THEN Goto("cfg_write") ELSE Return(BusErrorMsg, 0)
    /\ UNCHANGED <<live, chipVars, status, flushed, tsVars, rxChip,
                   base_config, ceSaved, packets_left, counter, observe, count, width>>

\* Mutant: a configure that stores the base configuration before the
\* mode-specific writes.
CfgWrite_StoresFirst ==
    /\ At("cfg_write")
    /\ LET writes == ConfigWrites(arg)
           i == Len(SelectSeq(log, IsBus)) + 1
       IN \E t \in Transfers :
            /\ NrfWrite(writes[i].a, writes[i].v, t)
            /\ base_config' = IF arg.mode = "RX" THEN ReceiverBase ELSE TransmitterBase
            /\ IF ~t[1] THEN Return(BusErrorMsg, 0)
               ELSE IF i < Len(writes) THEN Goto("cfg_write")
               ELSE Goto("cfg_power")
    /\ UNCHANGED <<live, ce, txCount, status, flushed, tsVars, rxFifo, pulsed,
                   ceValue, ceSaved, packets_left, counter, observe, count, width>>

\* The next write_register(..)? of configure; after the last one,
\* self.base_config = base_config.
CfgWrite ==
    /\ At("cfg_write")
    /\ LET writes == ConfigWrites(arg)
           i == Len(SelectSeq(log, IsBus)) + 1
       IN \E t \in Transfers :
            /\ NrfWrite(writes[i].a, writes[i].v, t)
            /\ IF ~t[1] THEN Return(BusErrorMsg, 0) /\ base_config' = base_config
               ELSE IF i < Len(writes) THEN Goto("cfg_write") /\ base_config' = base_config
               ELSE /\ Goto("cfg_power")
                    /\ base_config' = IF arg.mode = "RX" THEN ReceiverBase ELSE TransmitterBase
    /\ UNCHANGED <<live, ce, txCount, status, flushed, tsVars, rxFifo, pulsed,
                   ceValue, ceSaved, packets_left, counter, observe, count, width>>

\* Mutant: a power_up that writes the base configuration as it is.
PowerUpValue_Base == base_config

\* power_up(): write_register(CONFIG, self.base_config | 0b0000_0010)
PowerUpValue == SetBit(base_config, 1, TRUE)

NrfPowerUp ==
    /\ pc \in {"cfg_power", "n_power_up"}
    /\ UNCHANGED <<op, arg, ceAtCall, txAtCall, scenario>>
    /\ \E t \in Transfers :
         /\ NrfWrite(CONFIG_ADDR, PowerUpValue, t)
         /\ Return(IF t[1] THEN "Ok" ELSE BusErrorMsg, 0)
    /\ UNCHANGED <<live, ce, txCount, status, flushed, tsVars, rxFifo, pulsed, nrfVars>>

(* The one-transfer methods *)
NrfSimpleOps ==
    {"n_power_up", "n_power_down", "n_standby", "n_listen", "n_data_available",
     "n_flush_input", "n_flush_output"}

CallNrfSimple == \E name \in NrfSimpleOps : NrfCall(name, name, NoArg)

\* power_down(): self.ce.down()?; write_register(CONFIG, self.base_config)
NrfPowerDownCe ==
    /\ At("n_power_down")
    /\ \E ok \in BOOLEAN :
         /\ CePinSet(FALSE, ok)
         /\ IF ok THEN Goto("n_power_down_cfg") ELSE Return(BusErrorMsg, 0)
    /\ UNCHANGED <<live, chipVars, status, flushed, tsVars, rxChip,
                   base_config, ceSaved, packets_left, counter, observe, count, width>>

NrfPowerDownCfg ==
    /\ At("n_power_down_cfg")
    /\ \E t \in Transfers :
         /\ NrfWrite(CONFIG_ADDR, base_config, t)
         /\ Return(IF t[1] THEN "Ok" ELSE BusErrorMsg, 0)
    /\ UNCHANGED <<live, ce, txCount, status, flushed, tsVars, rxFifo, pulsed, nrfVars>>

\* standby(): self.ce.down()?
NrfStandby ==
    /\ At("n_standby")
    /\ \E ok \in BOOLEAN :
         /\ CePinSet(FALSE, ok)
         /\ Return(IF ok THEN "Ok" ELSE BusErrorMsg, 0)
    /\ UNCHANGED <<live, chipVars, status, flushed, tsVars, rxChip,
                   base_config, ceSaved, packets_left, counter, observe, count, width>>

\* listen(): if self.is_receiver() { self.ce.up()? }
NrfListen ==
    /\ At("n_listen")
    /\ IF is_receiver
         THEN \E ok \in BOOLEAN :
                /\ CePinSet(TRUE, ok)
                /\ Return(IF ok THEN "Ok" ELSE BusErrorMsg, 0)
         ELSE UNCHANGED <<ce, ceValue, log, pulsed>> /\ Return("Ok", 0)
    /\ UNCHANGED <<live, chipVars, status, flushed, tsVars, rxChip,
                   base_config, ceSaved, packets_left, counter, observe, count, width>>

\* data_available(): fifo_status.trailing_zeros() >= 1
data_available(fifo_status) == Bit(fifo_status, 0) = 0

NrfDataAvailable ==
    /\ At("n_data_available")
    /\ \E ok \in BOOLEAN :
         /\ log' = Append(log, read_fifo_status(ok))
         /\ IF ok THEN Return("Ok", B(data_available(ChipFifoStatus)))
                  ELSE Return(BusErrorMsg, 0)
    /\ UNCHANGED <<live, ce, chipVars, status, flushed, tsVars, rxChip, pulsed, nrfVars>>

\* flush_input(): send_command(&[FLUSH_RX], ..)?
NrfFlushInput ==
    /\ At("n_flush_input")
    /\ \E t \in Transfers :
         /\ log' = Append(log, EvCmd("FlushRx", ChipStatus, t[1]))
         /\ rxFifo' = IF t[2] THEN <<>> ELSE rxFifo
         /\ Return(IF t[1] THEN "Ok" ELSE BusErrorMsg, 0)
    /\ UNCHANGED <<live, ce, chipVars, status, flushed, tsVars, rxDr, pulsed, nrfVars>>

\* flush_output(): send_command(&[FLUSH_TX], ..)?
NrfFlushOutput ==
    /\ At("n_flush_output")
    /\ \E t \in Transfers :
         /\ log' = Append(log, EvCmd("FlushTx", ChipStatus, t[1]))
         /\ txCount' = IF t[2] THEN 0 ELSE txCount
         /\ flushed' = TRUE
         /\ Return(IF t[1] THEN "Ok" ELSE BusErrorMsg, 0)
    /\ UNCHANGED <<live, ce, chipConfig, txDs, maxRt, status, tsVars, rxChip, pulsed, nrfVars>>

(* push(pipe_num, data) *)
PushArgs ==
    {[pipe_num |-> 0, len |-> 0], [pipe_num |-> 7, len |-> 1], [pipe_num |-> 3, len |-> 32],
     [pipe_num |-> 0, len |-> 33], [pipe_num |-> 5, len |-> 2], [pipe_num |-> 6, len |-> 2],
     [pipe_num |-> 255, len |-> 0]}

CallPush == \E a \in PushArgs : NrfCall("push", "push_read", a)

\* Mutant: push that does not look at the TX_FULL flags.
PushFull_Never(st, fifo_status) == FALSE

\* (status & 1 != 0) || (fifo_status & 0b0010_0000 != 0)
PushFull(st, fifo_status) == Bit(st, 0) = 1 \/ tx_full(fifo_status)

PushRead_Retry ==
    /\ At("push_read")
    /\ \E ok \in BOOLEAN :
         /\ log' = Append(log, read_fifo_status(ok))
         /\ IF ~ok THEN Goto("push_read")
            ELSE IF PushFull(ChipStatus, ChipFifoStatus) THEN Return(QueueFullMsg, 0)
            ELSE IF arg.len > 32 THEN Return(TooBigMsg, 0)
            ELSE Goto("push_write")
    /\ UNCHANGED <<live, ce, chipVars, status, flushed, tsVars, rxChip, pulsed, nrfVars>>

\* let (status, fifo_status) = self.read_register(FIFO_STATUS)?; the full
\* test; the command byte; the length test.
PushRead ==
    /\ At("push_read")
    /\ \E ok \in BOOLEAN :
         /\ log' = Append(log, read_fifo_status(ok))
         /\ IF ~ok THEN Return(BusErrorMsg, 0)
            ELSE IF PushFull(ChipStatus, ChipFifoStatus) THEN Return(QueueFullMsg, 0)
            ELSE IF arg.len > 32 THEN Return(TooBigMsg, 0)
            ELSE Goto("push_write")
    /\ UNCHANGED <<live, ce, chipVars, status, flushed, tsVars, rxChip, pulsed, nrfVars>>

W_TX_PAYLOAD == 160
W_ACK_PAYLOAD == 168

\* The | of two bytes.
BitOr(x, y) ==
    LET RECURSIVE orUpto(_)
        orUpto(n) == IF n = 0 THEN 0
                     ELSE orUpto(n - 1)
                            + (IF Bit(x, n - 1) = 1 \/ Bit(y, n - 1) = 1 THEN Pow2(n - 1) ELSE 0)
    IN orUpto(8)

PushCommand_NoCap(pipe_num) ==
    IF is_receiver THEN BitOr(W_ACK_PAYLOAD, pipe_num) ELSE W_TX_PAYLOAD

\* let command = if self.is_receiver() { W_ACK_PAYLOAD | actual_pipe_num }
\*               else { W_TX_PAYLOAD };
PushCommand(pipe_num) ==
    IF is_receiver
      THEN LET actual_pipe_num == IF pipe_num < 6 THEN pipe_num ELSE 5
           IN  BitOr(W_ACK_PAYLOAD, actual_pipe_num)
      ELSE W_TX_PAYLOAD

\* The data of a push of n bytes.
PushData(n) == [i \in 1..n |-> i]

\* out_buffer = [command; 33]; out_buffer[1..ubound].copy_from_slice(data);
\* &out_buffer[..ubound]
PushOut(command, data) ==
    LET out_buffer == [i \in 1..33 |-> IF 2 <= i /\ i <= Len(data) + 1 THEN data[i - 1] ELSE command]
        ubound == Len(data) + 1
    IN  SubSeq(out_buffer, 1, ubound)

\* self.send_command(&out_buffer[..ubound], &mut in_buffer[..ubound]): the
\* chip takes the first byte as the command, W_ACK_PAYLOAD with the pipe in
\* its last three bits or W_TX_PAYLOAD.
PushWrite ==
    /\ At("push_write")
    /\ LET out == PushOut(PushCommand(arg.pipe_num), PushData(arg.len))
           e(st, ok) ==
               [(IF out[1] >= W_ACK_PAYLOAD
                   THEN EvPayload("WriteAckPayload", out[1] % 8, Len(out) - 1, st, ok)
                   ELSE EvPayload("WriteTxPayload", 0, Len(out) - 1, st, ok))
                EXCEPT !.d = out]
       IN \E t \in Transfers :
            /\ log' = Append(log, e(ChipStatus, t[1]))
            /\ txCount' = IF t[2] /\ txCount < TxFifoCap THEN txCount + 1 ELSE txCount
            /\ Return(IF t[1] THEN "Ok" ELSE BusErrorMsg, 0)
    /\ UNCHANGED <<live, ce, chipConfig, txDs, maxRt, status, flushed, tsVars, rxChip,
                   pulsed, nrfVars>>

(* send() *)
CallNrfSend == NrfCall("NRF24L01::send", "s_clear", NoArg)

\* An event appended to the log in place of a read of the same register
\* that ends it: of the reads a polling loop repeats, the log keeps the last.
Poll(e) ==
    IF Len(log) > 0 /\ Last(log).k = e.k /\ Last(log).a = e.a
      THEN Append(SubSeq(log, 1, Len(log) - 1), e)
      ELSE Append(log, e)

\* Mutant: the outer loop that is left whatever FIFO_STATUS said.
SendLoop_Leave(left) == "s_final"

\* while packets_left
SendLoop(left) == IF left THEN "s_up" ELSE "s_final"

\* self.write_register(STATUS, 0x30)?; let mut counter = 0u8;
SendClear ==
    /\ At("s_clear")
    /\ \E t \in Transfers :
         /\ NrfWrite(STATUS_ADDR, 48, t)
         /\ IF t[1] THEN Goto("s_fifo") ELSE Return(BusErrorMsg, 0)
    /\ counter' = 0
    /\ UNCHANGED <<live, ce, txCount, status, flushed, tsVars, rxFifo, pulsed,
                   base_config, ceValue, ceSaved, packets_left, observe, count, width>>

\* let (_, fifo_status) = self.read_register(FIFO_STATUS)?;
\* packets_left = fifo_status & 0x10 == 0;   -- before the loop and at its end
SendFifo ==
    /\ At("s_fifo")
    /\ \E ok \in BOOLEAN :
         /\ log' = Append(log, read_fifo_status(ok))
         /\ IF ok
              THEN /\ packets_left' = ~tx_empty(ChipFifoStatus)
                   /\ Goto(SendLoop(~tx_empty(ChipFifoStatus)))
              ELSE /\ packets_left' = packets_left
                   /\ Return(BusErrorMsg, 0)
    /\ UNCHANGED <<live, ce, chipVars, status, flushed, tsVars, rxChip, pulsed,
                   base_config, ceValue, ceSaved, counter, observe, count, width>>

\* self.ce.up()?  -- the log restarts with each iteration of the outer loop
SendCeUp ==
    /\ At("s_up")
    /\ \E ok \in BOOLEAN :
         IF ok
           THEN /\ ce' = TRUE /\ ceValue' = TRUE /\ log' = <<EvCe(TRUE)>>
                /\ Goto("s_down")
           ELSE /\ UNCHANGED <<ce, ceValue, log>>
                /\ Return(BusErrorMsg, 0)
    /\ UNCHANGED <<live, chipVars, status, flushed, tsVars, rxChip, pulsed,
                   base_config, ceSaved, packets_left, counter, observe, count, width>>

\* self.ce.down()?; let mut status = 0u8; let mut observe = 0u8;
SendCeDown ==
    /\ At("s_down")
    /\ \E ok \in BOOLEAN :
         /\ CePinSet(FALSE, ok)
         /\ IF ok THEN status' = 0 /\ observe' = 0 /\ Goto("s_observe")
                  ELSE UNCHANGED <<status, observe>> /\ Return(BusErrorMsg, 0)
    /\ UNCHANGED <<live, chipVars, flushed, tsVars, rxChip,
                   base_config, ceSaved, packets_left, counter, count, width>>

\* Mutant: a wait loop that ignores the status byte.
SendWaiting_Always(st) == TRUE

\* while status & 0x30 == 0
SendWaiting(st) == ~tx_ds(st) /\ ~max_rt(st)

\* The OBSERVE_TX bytes send reads: PLOS_CNT in the high and ARC_CNT in the
\* low four bits.
SendObserveVals == {0, 8, 24}

\* counter += observe & 0x0f: the u8 sum, and whether it overflowed.
CounterSum(obs) == counter + (obs % 16)

\* One pass of the wait-for-ACK loop: self.read_register(OBSERVE_TX)?, and
\* when the loop ends with it, the MAX_RT test and the counter.  An
\* overflowing sum panics in a build with overflow checks and wraps in one
\* without.
SendObserve ==
    /\ At("s_observe")
    /\ \E ok \in BOOLEAN, v \in SendObserveVals :
         /\ log' = Poll(EvRead(OBSERVE_TX_ADDR, v, ChipStatus, ok))
         /\ IF ~ok
              THEN /\ UNCHANGED <<status, observe, counter, live>>
                   /\ Return(BusErrorMsg, 0)
              ELSE /\ status' = ChipStatus
                   /\ observe' = v
                   /\ IF SendWaiting(ChipStatus)
                        THEN counter' = counter /\ live' = live /\ Goto("s_observe")
                      ELSE IF max_rt(ChipStatus)
                        THEN counter' = counter /\ live' = live /\ Goto("s_clear_max_rt")
                      ELSE IF CounterSum(v) < 256
                        THEN counter' = CounterSum(v) /\ live' = live /\ Goto("s_fifo")
                      ELSE \/ counter' = CounterSum(v) % 256 /\ live' = live /\ Goto("s_fifo")
                           \/ counter' = counter /\ Panic
    /\ UNCHANGED <<ce, chipVars, flushed, tsVars, rxChip, pulsed,
                   base_config, ceValue, ceSaved, packets_left, count, width>>

\* Mutant: the MAX_RT branch that flushes the TX FIFO.
SendClearMaxRt_Flush ==
    /\ At("s_clear_max_rt")
    /\ \E t \in Transfers :
         /\ NrfWrite(STATUS_ADDR, 16, t)
         /\ txCount' = 0
         /\ flushed' = TRUE
         /\ Return(IF t[1] THEN MaxRetriesMsg ELSE BusErrorMsg, 0)
    /\ UNCHANGED <<live, ce, status, tsVars, rxFifo, pulsed, nrfVars>>

\* self.write_register(STATUS, 0x10)?; return Err("Maximum number of ...")
SendClearMaxRt ==
    /\ At("s_clear_max_rt")
    /\ \E t \in Transfers :
         /\ NrfWrite(STATUS_ADDR, 16, t)
         /\ Return(IF t[1] THEN MaxRetriesMsg ELSE BusErrorMsg, 0)
    /\ UNCHANGED <<live, ce, txCount, status, flushed, tsVars, rxFifo, pulsed, nrfVars>>

\* self.write_register(STATUS, 0x20)?; Ok(counter)
SendFinal ==
    /\ At("s_final")
    /\ \E t \in Transfers :
         /\ NrfWrite(STATUS_ADDR, 32, t)
         /\ IF t[1] THEN Return("Ok", counter) ELSE Return(BusErrorMsg, 0)
    /\ UNCHANGED <<live, ce, txCount, status, flushed, tsVars, rxFifo, pulsed, nrfVars>>

(* read_all(process_packet) *)
CallReadAll == NrfCall("read_all", "ra_down", NoArg)

\* let mut count = 0u8; self.ce.save_state(); self.ce.down()?;
RaDown ==
    /\ At("ra_down")
    /\ count' = 0
    /\ ceSaved' = ceValue
    /\ \E ok \in BOOLEAN :
         /\ CePinSet(FALSE, ok)
         /\ IF ok THEN Goto("ra_avail") ELSE Return(BusErrorMsg, 0)
    /\ UNCHANGED <<live, chipVars, status, flushed, tsVars, rxChip,
                   base_config, packets_left, counter, observe, width>>

\* while self.data_available()?  -- the log restarts with each poll
RaAvail ==
    /\ At("ra_avail")
    /\ \E ok \in BOOLEAN :
         /\ log' = <<read_fifo_status(ok)>>
         /\ IF ~ok THEN Return(BusErrorMsg, 0)
            ELSE IF data_available(ChipFifoStatus) THEN Goto("ra_width")
            ELSE Goto("ra_clear")
    /\ UNCHANGED <<live, ce, chipVars, status, flushed, tsVars, rxChip, pulsed, nrfVars>>

\* self.send_command(&[R_RX_PL_WID, 0], &mut pl_wd)?; width = pl_wd[1];
\* if width != 0
RaWidth ==
    /\ At("ra_width")
    /\ \E ok \in BOOLEAN :
         /\ log' = Append(log, Ev("ReadRxPayloadWidth", 0, IF ok THEN ChipRxWidth ELSE 0,
                                  IF ok THEN ChipStatus ELSE 0, ok))
         /\ IF ~ok THEN width' = width /\ Return(BusErrorMsg, 0)
            ELSE /\ width' = ChipRxWidth
                 /\ Goto(IF ChipRxWidth # 0 THEN "ra_read" ELSE "ra_avail")
    /\ UNCHANGED <<live, ce, chipVars, status, flushed, tsVars, rxChip, pulsed,
                   base_config, ceValue, ceSaved, packets_left, counter, observe, count>>

\* The length of read_all's receive_buffer and out_buffer.
RaBufferLen == 33

\* let ubound = width + 1; &out_buffer[..ubound] panics when ubound exceeds
\* the buffer; self.send_command(..)?; process_packet(..); count += 1;
RaRead ==
    /\ At("ra_read")
    /\ IF width + 1 > RaBufferLen
         THEN /\ Panic
              /\ UNCHANGED <<log, rxFifo, count>>
         ELSE \E t \in Transfers :
                /\ log' = Append(log, EvPayload("ReadRxPayload", 0, width, ChipStatus, t[1]))
                /\ rxFifo' = IF t[2] THEN ChipRxPop ELSE rxFifo
                /\ live' = live
                /\ IF t[1] THEN count' = count + 1 /\ Goto("ra_avail")
                           ELSE count' = count /\ Return(BusErrorMsg, 0)
    /\ UNCHANGED <<ce, chipVars, status, flushed, tsVars, rxDr, pulsed,
                   base_config, ceValue, ceSaved, packets_left, counter, observe, width>>

\* self.write_register(STATUS, 0b0100_0000)?
RaClear ==
    /\ At("ra_clear")
    /\ \E t \in Transfers :
         /\ NrfWrite(STATUS_ADDR, 64, t)
         /\ IF t[1] THEN Goto("ra_restore") ELSE Return(BusErrorMsg, 0)
    /\ UNCHANGED <<live, ce, txCount, status, flushed, tsVars, rxFifo, pulsed, nrfVars>>

\* Mutant: a read_all that leaves CE low.
RaRestore_Low ==
    /\ At("ra_restore")
    /\ \E ok \in BOOLEAN :
         /\ CePinSet(FALSE, ok)
         /\ IF ok THEN Return("Ok", count) ELSE Return(BusErrorMsg, 0)
    /\ UNCHANGED <<live, chipVars, status, flushed, tsVars, rxChip,
                   base_config, ceSaved, packets_left, counter, observe, count, width>>

\* self.ce.restore_state()?; Ok(count)
RaRestore ==
    /\ At("ra_restore")
    /\ \E ok \in BOOLEAN :
         /\ CePinSet(ceSaved, ok)
         /\ IF ok THEN Return("Ok", count) ELSE Return(BusErrorMsg, 0)
    /\ UNCHANGED <<live, chipVars, status, flushed, tsVars, rxChip,
                   base_config, ceSaved, packets_left, counter, observe, count, width>>

(* The chip's receiver and the NRF24L01 system *)
\* The packets that reach the chip: the pipe, and the width the chip reports
\* for the packet (above 32 for a corrupted FIFO entry).
NrfPackets == {[pipe |-> 0, w |-> 0], [pipe |-> 1, w |-> 2], [pipe |-> 5, w |-> 32],
               [pipe |-> 2, w |-> 33]}

\* The packets queued in the RX FIFO at most, of its three levels.
MaxRxQueued == 2

\* The chip listens as PRX: powered up, PRIM_RX = 1, CE high.
ChipCanRx ==
    /\ ce
    /\ pwr_up(chipConfig)
    /\ prim_rx(chipConfig)
    /\ Len(rxFifo) < MaxRxQueued

\* A packet arrived: it is queued and RX_DR is raised.
ChipRxOf(pkts) ==
    /\ ChipCanRx
    /\ \E pkt \in pkts : rxFifo' = Append(rxFifo, pkt)
    /\ rxDr' = TRUE
    /\ noneRun' = 0
    /\ UNCHANGED <<live, pc, op, result, ret, ce, config, chipVars, empty, status, log,
                   ceAtCall, txAtCall, flushed, sentSinceTx, arg, payload, pulsed, nrfVars,
                   scenario>>

NrfChipRx == ChipRxOf(NrfPackets)

\* After NRF24L01::new: base_config 0b0000_1101, the CEPin believing the
\* line low, and the chip as it is after power-on: CONFIG = EN_CRC, FIFOs
\* empty, no interrupt flag.
NewBaseConfig == 13

\* The chip's CONFIG after power-on: EN_CRC alone.
ResetConfig == SetBit(0, 3, TRUE)

InitNrf ==
    /\ live = {"NRF24L01"}
    /\ pc = "idle"
    /\ op = "new"
    /\ result = "Ok"
    /\ ret = 0
    /\ ce \in BOOLEAN
    /\ config = ResetConfig
    /\ chipConfig = ResetConfig
    /\ txCount = 0
    /\ txDs = FALSE
    /\ maxRt = FALSE
    /\ empty = FALSE
    /\ status = 0
    /\ log = <<>>
    /\ ceAtCall = FALSE
    /\ txAtCall = 0
    /\ flushed = FALSE
    /\ sentSinceTx = FALSE
    /\ arg = NoArg
    /\ payload = NoPayload
    /\ noneRun = 0
    /\ rxFifo = <<>>
    /\ rxDr = FALSE
    /\ pulsed = FALSE
    /\ base_config = NewBaseConfig
    /\ ceValue = FALSE
    /\ ceSaved = FALSE
    /\ packets_left = FALSE
    /\ counter = 0
    /\ observe = 0
    /\ count = 0
    /\ width = 0
    /\ scenario = "any"

\* The methods of both roles.
NrfCommonCall ==
    \/ CallConfigure
    \/ CallNrfSimple

NrfCommonStep ==
    \/ CfgDown
    \/ CfgWrite
    \/ NrfPowerUp
    \/ NrfPowerDownCe
    \/ NrfPowerDownCfg
    \/ NrfStandby
    \/ NrfListen
    \/ NrfDataAvailable
    \/ NrfFlushInput
    \/ NrfFlushOutput

NrfTxStep ==
    \/ PushRead
    \/ PushWrite
    \/ SendClear
    \/ SendFifo
    \/ SendCeUp
    \/ SendCeDown
    \/ SendObserve
    \/ SendClearMaxRt
    \/ SendFinal

NrfRxStep ==
    \/ RaDown
    \/ RaAvail
    \/ RaWidth
    \/ RaRead
    \/ RaClear
    \/ RaRestore

\* The sending side: every method but read_all, no packet reaching the chip.
NextNrf == NrfCommonCall \/ CallPush \/ CallNrfSend \/ NrfCommonStep \/ NrfTxStep \/ ChipTx

SpecNrf == InitNrf /\ [][NextNrf]_vars

\* A running method keeps executing, and the chip ends the transmission a CE
\* pulse started, with an ACK or with MAX_RT.
SpecNrfFair == SpecNrf /\ WF_vars(NrfCommonStep \/ NrfTxStep) /\ WF_vars(ChipTx)

(* configure over the whole range of its numeric fields *)
\* Every u8.
Bytes == 0..255

\* The retransmission settings tried: the values up to the limit of 15 and
\* past it, and the ends of the u8 range.
RetryVals == (0..17) \cup {31, 32, 127, 128, 240, 255}

\* RX and TX configurations of every channel, and TX configurations of
\* every max_retries and every retry_delay, each with the other setting
\* running through RetryVals.
TxRetries(r, d) ==
    [mode |-> "TX", rate |-> "R1Mbps", level |-> "Max", channel |-> 108,
     pipes |-> {}, max_retries |-> r, retry_delay |-> d]

ConfigInputs ==
    { [mode |-> md, rate |-> "R1Mbps", level |-> "Max", channel |-> c,
       pipes |-> {}, max_retries |-> 3, retry_delay |-> 2] :
         md \in {"RX", "TX"}, c \in Bytes }
    \cup {TxRetries(r, d) : r \in Bytes, d \in RetryVals}
    \cup {TxRetries(r, d) : r \in RetryVals, d \in Bytes}

\* configure as the first call on a new device.
CallConfigureAny ==
    /\ op = "new"
    /\ \E m \in ConfigInputs : NrfCall("configure", "cfg_down", m)

NextNrfCfg == CallConfigureAny \/ CfgDown \/ CfgWrite \/ NrfPowerUp

SpecNrfCfg == InitNrf /\ [][NextNrfCfg]_vars

\* The receiving side: packets reach the chip, and the caller neither
\* queues payloads nor sends.
NextNrfRx == NrfCommonCall \/ CallReadAll \/ NrfCommonStep \/ NrfRxStep \/ NrfChipRx

SpecNrfRx == InitNrf /\ [][NextNrfRx]_vars

(* The type-state driver's receiving side *)
\* The widths the chip reports for the packets that reach it: the ends and
\* the inside of the legal range, and two beyond the 32 bytes of a payload.
RxWidths == {0, 1, 2, 31, 32, 33, 255}

RxPackets == {[pipe |-> w % 6, w |-> w] : w \in RxWidths}

ChipRx == ChipRxOf(RxPackets)

RxCall ==
    \/ CallPowerUp
    \/ CallRx
    \/ CallRxStandby
    \/ CallCanRead
    \/ CallRead
    \/ CallRxQuery
    \/ CallSetRxAddr

RxStep ==
    \/ PowerUpCfg
    \/ RxCfg
    \/ RxCe
    \/ RxStandbyFrom
    \/ CanReadClear
    \/ CanReadFifo
    \/ RxQueryRead
    \/ ReadWidth
    \/ ReadPayload
    \/ SetRxAddrWrite

NextRx == RxCall \/ RxStep \/ ChipRx

SpecRx == Init /\ [][NextRx]_vars

(***************************************************************************)
(* Register (registers.rs): encode and decode                              *)
(***************************************************************************)
MIN_ADDR_BYTES == 3
MAX_ADDR_BYTES == 5

\* impl_register!: encode is buf[0] = self.0, decode is $name(buf[0]); the
\* buffer has read_len() = 1 bytes.
encode(reg) == [i \in 1..1 |-> reg]
decode(buf) == buf[1]

\* def_address_register!: write_len is self.len
write_len(reg) == reg.len

\* buf.copy_from_slice(&self.addr[0..len]) into the write_len() bytes the
\* device hands to encode.
encode_address(reg) == SubSeq(reg.addr, 1, reg.len)

decode_address_Full(buf) ==
    [addr |-> [i \in 1..MAX_ADDR_BYTES |-> IF i <= Len(buf) THEN buf[i] ELSE 0],
     len |-> MAX_ADDR_BYTES]

\* let len = buf.len(); addr = [0; MAX_ADDR_BYTES];
\* addr[0..len].copy_from_slice(buf); $name { addr, len: len as u8 }
decode_address(buf) ==
    [addr |-> [i \in 1..MAX_ADDR_BYTES |-> IF i <= Len(buf) THEN buf[i] ELSE 0],
     len |-> Len(buf)]

(***************************************************************************)
(* Configuration (config.rs) and Device::update_register (device.rs)       *)
(***************************************************************************)
\* bitfield!: a setter of the field msb..lsb keeps the low bits of the value
\* it is given and leaves the other bits of the register alone.
SetBits(b, msb, lsb, v) ==
    b - ((b \div Pow2(lsb)) % Pow2(msb - lsb + 1)) * Pow2(lsb)
      + (v % Pow2(msb - lsb + 1)) * Pow2(lsb)

set_rf_ch(r, v) == SetBits(r, 6, 0, v)
set_ard(r, v) == SetBits(r, 7, 4, v)
set_arc(r, v) == SetBits(r, 3, 0, v)
set_en_dpl(r, v) == SetBit(r, 2, v)
set(r, v) == SetBits(r, 5, 0, v)

RX_PW_P0 == 17
PIPES_COUNT == 6
FreqLimit == 126

\* What the Configuration calls leave alone.
cfgFrame == <<ce, config, chipVars, empty, status, sentSinceTx, flushed, rxChip, pulsed, nrfVars>>

\* Configuration is implemented by the three wrappers; the model follows one
\* call on a wrapper.
CfgFresh == op = "new" /\ live \cap {"Standby", "Rx", "Tx"} # {}

CfgCall(name, first, a) ==
    /\ BeginArg(name, first, a)
    /\ UNCHANGED <<live, cfgFrame>>

\* One write_register as the last transfer of a call.
CfgLastWrite(a, v) ==
    \E ok \in BOOLEAN :
        /\ log' = Append(log, EvWrite(a, v, ChipStatus, ok))
        /\ live' = live
        /\ Return(IF ok THEN "Ok" ELSE "Err", 0)

CallSetFrequency == CfgFresh /\ \E c \in Bytes : CfgCall("set_frequency", "sf_write", c)

\* assert!(freq_offset < 126); register.set_rf_ch(freq_offset); write_register
SetFrequencyWrite ==
    /\ At("sf_write")
    /\ IF arg < FreqLimit
         THEN CfgLastWrite(RF_CH, set_rf_ch(0, arg))
         ELSE log' = log /\ Panic
    /\ UNCHANGED cfgFrame

RetransmitInputs ==
    {[delay |-> d, count |-> c] : d \in Bytes, c \in RetryVals}
        \cup {[delay |-> d, count |-> c] : d \in RetryVals, c \in Bytes}

CallSetAutoRetransmit ==
    CfgFresh /\ \E a \in RetransmitInputs : CfgCall("set_auto_retransmit", "sar_write", a)

set_auto_retransmit(delay, cnt) == set_arc(set_ard(0, delay), cnt)

SetAutoRetransmitWrite ==
    /\ At("sar_write")
    /\ CfgLastWrite(SETUP_RETR, set_auto_retransmit(arg.delay, arg.count))
    /\ UNCHANGED cfgFrame

\* update_register<Reg, F, R>(f): the closures the model passes.  Each is a
\* change of the register and a result.
UpdateFns == {"set_en_dpl", "clear_en_dpl", "toggle_en_ack_pay", "get"}

FnApply(f, r) ==
    CASE f = "set_en_dpl" -> set_en_dpl(r, TRUE)
      [] f = "clear_en_dpl" -> set_en_dpl(r, FALSE)
      [] f = "toggle_en_ack_pay" -> SetBit(r, 1, Bit(r, 1) = 0)
      [] f = "get" -> r

FnResult(f, r) ==
    CASE f = "set_en_dpl" -> 0
      [] f = "clear_en_dpl" -> Bit(r, 2)
      [] f = "toggle_en_ack_pay" -> FnApply(f, r)
      [] f = "get" -> r

\* The registers update_register is called on, CONFIG among them.
UpdateRegs == {CONFIG_ADDR, DYNPD, FEATURE}

\* What the chip may hold in the register that is read.
RegValues == {0, 3, 4, 7}

CallUpdateRegister ==
    /\ CfgFresh
    /\ \E a \in UpdateRegs, f \in UpdateFns :
         CfgCall("update_register", "ur_read", [reg |-> a, f |-> f])

\* update_register inside set_pipes_rx_lengths is on Feature with
\* |feature| feature.set_en_dpl(true).
UrReg == IF op = "set_pipes_rx_lengths" THEN FEATURE ELSE arg.reg
UrFn == IF op = "set_pipes_rx_lengths" THEN "set_en_dpl" ELSE arg.f

\* update_register has finished with result r.
UrDone(r) ==
    IF op = "set_pipes_rx_lengths"
      THEN pc' = "sp_dynpd" /\ UNCHANGED <<result, ret, payload, noneRun>>
      ELSE Return("Ok", r)

\* The value update_register read.
old_register == Last(log).v

\* assert!(Reg::addr() != 0x00);
\* let (_, old_register) = self.read_register::<Reg>()?;
\* let mut register = old_register.clone(); let result = f(&mut register);
\* if register != old_register { ... } else Ok(result)
UrRead ==
    /\ At("ur_read")
    /\ IF UrReg = CONFIG_ADDR
         THEN log' = log /\ Panic
         ELSE /\ live' = live
              /\ \E ok \in BOOLEAN, v \in RegValues :
                   /\ log' = Append(log, EvRead(UrReg, v, ChipStatus, ok))
                   /\ IF ~ok THEN Return("Err", 0)
                      ELSE IF FnApply(UrFn, v) # v THEN Goto("ur_write")
                      ELSE UrDone(FnResult(UrFn, v))
    /\ UNCHANGED cfgFrame

UrWrite_Stale ==
    /\ At("ur_write")
    /\ live' = live
    /\ \E ok \in BOOLEAN :
         /\ log' = Append(log, EvWrite(UrReg, old_register, ChipStatus, ok))
         /\ IF ok THEN UrDone(FnResult(UrFn, old_register)) ELSE Return("Err", 0)
    /\ UNCHANGED cfgFrame

\* self.write_register(register)?; Ok(result)
UrWrite ==
    /\ At("ur_write")
    /\ live' = live
    /\ \E ok \in BOOLEAN :
         /\ log' = Append(log, EvWrite(UrReg, FnApply(UrFn, old_register), ChipStatus, ok))
         /\ IF ok THEN UrDone(FnResult(UrFn, old_register)) ELSE Return("Err", 0)
    /\ UNCHANGED cfgFrame

\* lengths: None for a dynamic payload length, Some(len) for a static one.
LengthVals == {None, 0, 63}
LongLengths == {1, 32, 64, 65, 255}
LengthInputs ==
    [1..PIPES_COUNT -> LengthVals]
        \cup {[i \in 1..PIPES_COUNT |-> IF i = k THEN v ELSE r] :
                  k \in 1..PIPES_COUNT, v \in LongLengths, r \in {None, 32}}

RECURSIVE from_bools_upto(_, _)
from_bools_upto(bools, n) ==
    IF n = 0 THEN 0
    ELSE SetBit(from_bools_upto(bools, n - 1), n - 1, bools[n])

\* Dynpd::from_bools
from_bools(bools) == from_bools_upto(bools, PIPES_COUNT)

Dynpd_Static(lengths) == from_bools([i \in 1..PIPES_COUNT |-> lengths[i] # None])

\* bools[i] = length.is_none()
Dynpd(lengths) == from_bools([i \in 1..PIPES_COUNT |-> lengths[i] = None])

unwrap_or(x, d) == IF x = None THEN d ELSE x

CallSetPipesRxLengths ==
    /\ CfgFresh
    /\ \E l \in LengthInputs :
         CfgCall("set_pipes_rx_lengths", IF Dynpd(l) # 0 THEN "ur_read" ELSE "sp_dynpd", l)

\* self.device().write_register(dynpd)?;
SpDynpd ==
    /\ At("sp_dynpd")
    /\ live' = live
    /\ \E ok \in BOOLEAN :
         /\ log' = Append(log, EvWrite(DYNPD, Dynpd(arg), ChipStatus, ok))
         /\ IF ok THEN Goto("sp_rx_pw") ELSE Return("Err", 0)
    /\ UNCHANGED cfgFrame

\* The RX_PW writes issued so far.
RxPwDone == Len(SelectSeq(log, LAMBDA e : e.k = "WriteRegister" /\ e.a >= RX_PW_P0
                                           /\ e.a < RX_PW_P0 + PIPES_COUNT))

\* set_rx_pw!(RxPwPi, i): register.set(lengths[i].unwrap_or(0)); write_register
SpRxPw ==
    /\ At("sp_rx_pw")
    /\ live' = live
    /\ \E ok \in BOOLEAN :
         /\ log' = Append(log, EvWrite(RX_PW_P0 + RxPwDone,
                                       set(0, unwrap_or(arg[RxPwDone + 1], 0)), ChipStatus, ok))
         /\ IF ~ok THEN Return("Err", 0)
            ELSE IF RxPwDone + 1 < PIPES_COUNT THEN Goto("sp_rx_pw")
            ELSE Return("Ok", 0)
    /\ UNCHANGED cfgFrame

(* The one-transfer operations of Configuration *)
CfgLive == live \cap {"Standby", "Rx", "Tx"} # {}

SETUP_AW == 3

\* flush_rx, flush_tx, get_interrupts: one command each.
CfgCommands == {"flush_rx", "flush_tx", "get_interrupts"}

CfgCommandOf(name) ==
    CASE name = "flush_rx" -> "FlushRx"
      [] name = "flush_tx" -> "FlushTx"
      [] name = "get_interrupts" -> "Nop"

CallCfgCommand == CfgLive /\ \E name \in CfgCommands : CfgCall(name, "cc_cmd", 0)

CfgCommand_CeLow ==
    /\ At("cc_cmd")
    /\ live' = live
    /\ ce' = FALSE
    /\ \E t \in Transfers :
         /\ log' = Append(log, EvCmd(CfgCommandOf(op), ChipStatus, t[1]))
         /\ rxFifo' = IF t[2] /\ op = "flush_rx" THEN <<>> ELSE rxFifo
         /\ txCount' = IF t[2] /\ op = "flush_tx" THEN 0 ELSE txCount
         /\ IF ~t[1] THEN Return("Err", 0)
            ELSE Return("Ok", IF op = "get_interrupts"
                                THEN B(rxDr) * Pow2(6) + B(txDs) * Pow2(5) + B(maxRt) * Pow2(4)
                                ELSE 0)
    /\ UNCHANGED <<config, chipConfig, txDs, maxRt, empty, status, sentSinceTx, flushed,
                   rxDr, pulsed, nrfVars>>

\* self.device().send_command(&FlushRx)?; / (&FlushTx)?; /
\* let (status, ()) = send_command(&Nop)?; Ok((rx_dr, tx_ds, max_rt))
CfgCommand ==
    /\ At("cc_cmd")
    /\ live' = live
    /\ \E t \in Transfers :
         /\ log' = Append(log, EvCmd(CfgCommandOf(op), ChipStatus, t[1]))
         /\ rxFifo' = IF t[2] /\ op = "flush_rx" THEN <<>> ELSE rxFifo
         /\ txCount' = IF t[2] /\ op = "flush_tx" THEN 0 ELSE txCount
         /\ IF ~t[1] THEN Return("Err", 0)
            ELSE Return("Ok", IF op = "get_interrupts"
                                THEN B(rxDr) * Pow2(6) + B(txDs) * Pow2(5) + B(maxRt) * Pow2(4)
                                ELSE 0)
    /\ UNCHANGED <<ce, config, chipConfig, txDs, maxRt, empty, status, sentSinceTx, flushed,
                   rxDr, pulsed, nrfVars>>

\* get_frequency, get_auto_ack, get_address_width: one register read each.
CfgReads == {"get_frequency", "get_auto_ack", "get_address_width"}

CfgReadReg(name) ==
    CASE name = "get_frequency" -> RF_CH
      [] name = "get_auto_ack" -> EN_AA
      [] name = "get_address_width" -> SETUP_AW

\* register.rf_ch() / register.to_bools() / 2 + register.aw()
CfgReadValue(name, v) ==
    CASE name = "get_frequency" -> v % Pow2(7)
      [] name = "get_auto_ack" -> v % Pow2(PIPES_COUNT)
      [] name = "get_address_width" -> 2 + (v % Pow2(2))

CallCfgRead == CfgLive /\ \E name \in CfgReads : CfgCall(name, "cc_read", 0)

CfgRead ==
    /\ At("cc_read")
    /\ live' = live
    /\ \E ok \in BOOLEAN, v \in RegValues :
         /\ log' = Append(log, EvRead(CfgReadReg(op), v, ChipStatus, ok))
         /\ Return(IF ok THEN "Ok" ELSE "Err", IF ok THEN CfgReadValue(op, v) ELSE 0)
    /\ UNCHANGED cfgFrame

\* set_rf, set_pipes_rx_enable, set_tx_addr, set_auto_ack, clear_interrupts:
\* one register write each.
DataRates == {"R250Kbps", "R1Mbps", "R2Mbps"}
PipeBools == {[i \in 1..PIPES_COUNT |-> b] : b \in BOOLEAN}
                 \cup {[i \in 1..PIPES_COUNT |-> i % 2 = 0]}

CfgWriteArgs ==
    {[name |-> "set_rf", rate |-> r, power |-> w] : r \in DataRates, w \in {0, 3, 4}}
        \cup {[name |-> n, bools |-> b] : n \in {"set_pipes_rx_enable", "set_auto_ack"},
                                           b \in PipeBools}
        \cup {[name |-> "set_tx_addr", addr |-> a] : a \in {<<1, 2>>, <<1, 2, 3>>, <<5, 4, 3, 2, 1>>}}
        \cup {[name |-> "clear_interrupts"]}

\* set_rf: register.set_rf_pwr(power); set_rf_dr_low(dr_low); set_rf_dr_high(dr_high)
RfSetupValue(rate, power) ==
    SetBit(SetBit(SetBits(0, 2, 1, power), 5, rate = "R250Kbps"), 3, rate = "R2Mbps")

\* The register a write operation writes and its value (the bytes of an
\* address go to the event's data).
CfgWriteReg(a) ==
    CASE a.name = "set_rf" -> RF_SETUP
      [] a.name = "set_pipes_rx_enable" -> EN_RXADDR
      [] a.name = "set_auto_ack" -> EN_AA
      [] a.name = "set_tx_addr" -> TX_ADDR
      [] a.name = "clear_interrupts" -> STATUS_ADDR

CfgWriteValue(a) ==
    CASE a.name = "set_rf" -> RfSetupValue(a.rate, a.power)
      [] a.name \in {"set_pipes_rx_enable", "set_auto_ack"} -> from_bools(a.bools)
      [] a.name = "set_tx_addr" -> 0
      [] a.name = "clear_interrupts" -> CanReadClearValue

\* assert!(power < 0b100) in set_rf; the asserts of TxAddr::new in set_tx_addr
CfgWritePanics(a) ==
    \/ a.name = "set_rf" /\ a.power >= 4
    \/ a.name = "set_tx_addr" /\ (Len(a.addr) < MIN_ADDR_BYTES \/ Len(a.addr) > MAX_ADDR_BYTES)

CallCfgWriteOf(args) == CfgLive /\ \E a \in args : CfgCall(a.name, "cc_write", a)

CallCfgWrite == CallCfgWriteOf(CfgWriteArgs)

CfgWriteStep ==
    /\ At("cc_write")
    /\ IF CfgWritePanics(arg)
         THEN log' = log /\ Panic /\ UNCHANGED <<rxDr, txDs, maxRt>>
         ELSE /\ live' = live
              /\ \E t \in Transfers :
                   /\ log' = Append(log,
                          [EvWrite(CfgWriteReg(arg), CfgWriteValue(arg), ChipStatus, t[1])
                             EXCEPT !.d = IF arg.name = "set_tx_addr"
                                            THEN encode_address(decode_address(arg.addr))
                                            ELSE <<>>])
                   /\ IF t[2] /\ arg.name = "clear_interrupts"
                        THEN ChipWriteStatus(CfgWriteValue(arg))
                        ELSE UNCHANGED <<rxDr, txDs, maxRt>>
                   /\ Return(IF t[1] THEN "Ok" ELSE "Err", 0)
    /\ UNCHANGED <<ce, config, chipConfig, txCount, empty, status, sentSinceTx, flushed,
                   rxFifo, pulsed, nrfVars>>

\* set_crc and set_interrupt_mask go through update_config.
CrcModes == {"Disabled", "OneByte", "TwoBytes"}

CfgConfigArgs ==
    {[name |-> "set_crc", mode |-> m] : m \in CrcModes}
        \cup {[name |-> "set_interrupt_mask", rx |-> a, tx |-> b, rt |-> c] :
                  a \in BOOLEAN, b \in BOOLEAN, c \in BOOLEAN}

\* CrcMode::set_config: config.set_en_crc(en_crc); config.set_crco(crco);
\* set_interrupt_mask: set_mask_rx_dr, set_mask_tx_ds, set_mask_max_rt
CfgConfigValue(a, c) ==
    IF a.name = "set_crc"
      THEN SetBit(SetBit(c, 3, a.mode # "Disabled"), 2, a.mode = "TwoBytes")
      ELSE SetBit(SetBit(SetBit(c, 6, a.rx), 5, a.tx), 4, a.rt)

CallCfgConfigOf(args) == CfgLive /\ \E a \in args : CfgCall(a.name, "cc_config", a)

CallCfgConfig == CallCfgConfigOf(CfgConfigArgs)

CfgConfigStep ==
    /\ At("cc_config")
    /\ live' = live
    /\ \E t \in Transfers :
         /\ update_config(CfgConfigValue(arg, config), t)
         /\ Return(IF update_config_ok(CfgConfigValue(arg, config), t) THEN "Ok" ELSE "Err", 0)
    /\ UNCHANGED <<ce, txCount, txDs, maxRt, empty, status, sentSinceTx, flushed, rxChip,
                   pulsed, nrfVars>>

CfgOpCall == CallCfgCommand \/ CallCfgRead \/ CallCfgWrite \/ CallCfgConfig

CfgOpStep == CfgCommand \/ CfgRead \/ CfgWriteStep \/ CfgConfigStep

\* A configuration call is made on a wrapper of any of the three modes.
InitCfg ==
    /\ live \in {{"Standby"}, {"Rx"}, {"Tx"}}
    /\ pc = "idle"
    /\ op = "new"
    /\ result = "Ok"
    /\ ret = 0
    /\ ce = ("Rx" \in live)
    /\ config = set_prim_rx(InitConfig, "Rx" \in live)
    /\ chipConfig = config
    /\ txCount = 0
    /\ txDs = FALSE
    /\ maxRt = FALSE
    /\ empty = FALSE
    /\ status = 0
    /\ log = <<>>
    /\ ceAtCall = FALSE
    /\ txAtCall = 0
    /\ flushed = FALSE
    /\ sentSinceTx = FALSE
    /\ arg = 0
    /\ payload = NoPayload
    /\ noneRun = 0
    /\ rxFifo = <<>>
    /\ rxDr = FALSE
    /\ pulsed = FALSE
    /\ base_config = 0
    /\ ceValue = FALSE
    /\ ceSaved = FALSE
    /\ packets_left = FALSE
    /\ counter = 0
    /\ observe = 0
    /\ count = 0
    /\ width = 0
    /\ scenario = "any"

NextCfg ==
    \/ CallSetFrequency
    \/ SetFrequencyWrite
    \/ CallSetAutoRetransmit
    \/ SetAutoRetransmitWrite
    \/ CallUpdateRegister
    \/ UrRead
    \/ UrWrite
    \/ CallSetPipesRxLengths
    \/ SpDynpd
    \/ SpRxPw
    \/ CfgOpCall
    \/ CfgOpStep

SpecCfg == InitCfg /\ [][NextCfg]_vars

(***************************************************************************)
(* Values: registers (registers.rs), Payload (payload.rs) and the default  *)
(* configurations (lib.rs), each built and taken apart in a call of its    *)
(* own on a fresh program.                                                 *)
(***************************************************************************)
\* What the value calls leave alone.
valueFrame == <<live, ce, config, chipVars, empty, status, sentSinceTx, flushed, rxChip,
               pulsed, nrfVars>>

ValueCall(name, first, a) == BeginArg(name, first, a) /\ UNCHANGED valueFrame

\* A step of a value call: the value built so far is in ret.
ValueStep(l, v) ==
    /\ pc' = l
    /\ ret' = v
    /\ result' = IF l = "idle" THEN "Ok" ELSE result
    /\ UNCHANGED <<live, log, payload, noneRun, valueFrame>>

AddrBytes == {0, 1, 255}
AddrBuffers == UNION {[1..n -> AddrBytes] : n \in (MIN_ADDR_BYTES - 1)..(MAX_ADDR_BYTES + 1)}

\* A one-byte register of any content is encoded and decoded.
CallRegister == op = "new" /\ \E x \in Bytes : ValueCall("Register", "reg_encode", x)

RegEncode == At("reg_encode") /\ ValueStep("reg_decode", encode(arg))

RegDecode == At("reg_decode") /\ ValueStep("idle", decode(ret))

\* An address register is made from a buffer, encoded and decoded.
CallAddressRegister ==
    op = "new" /\ \E buf \in AddrBuffers : ValueCall("AddressRegister", "addr_new", buf)

\* $name::new(buf) is Self::decode(buf):
\* assert!(len >= MIN_ADDR_BYTES); assert!(len <= MAX_ADDR_BYTES);
AddrNew ==
    /\ At("addr_new")
    /\ IF Len(arg) >= MIN_ADDR_BYTES /\ Len(arg) <= MAX_ADDR_BYTES
         THEN ValueStep("addr_encode", <<decode_address(arg)>>)
         ELSE log' = log /\ Panic /\ UNCHANGED valueFrame

AddrEncode == At("addr_encode") /\ ValueStep("addr_decode", <<ret[1], encode_address(ret[1])>>)

AddrDecode ==
    /\ At("addr_decode")
    /\ IF Len(ret[2]) >= MIN_ADDR_BYTES /\ Len(ret[2]) <= MAX_ADDR_BYTES
         THEN ValueStep("idle", <<ret[1], ret[2], decode_address(ret[2])>>)
         ELSE log' = log /\ Panic /\ UNCHANGED valueFrame

\* The sources of Payload::new: n bytes, for every n up to two beyond the
\* capacity and for the largest a u8 width can name.
SourceLens == (0..(PayloadCap + 2)) \cup {255}
Sources == {[i \in 1..n |-> (i * k) % 256] : n \in SourceLens, k \in {1, 7, 255}}

CallPayloadNew == op = "new" /\ \E source \in Sources : ValueCall("Payload::new", "pl_new", source)

\* Payload::new(source), then len()
PayloadMake ==
    /\ At("pl_new")
    /\ payload' = PayloadNew(arg)
    /\ pc' = "idle"
    /\ result' = "Ok"
    /\ ret' = payload'.len
    /\ UNCHANGED <<live, log, noneRun, valueFrame>>

\* impl Default for DataRate / PALevel
DataRateDefault == "R1Mbps"
PALevelDefault_Max == "Max"
PALevelDefault == "Min"

u8Default == 0
ZeroAddress == [i \in 1..5 |-> u8Default]

\* #[derive(Default)] pub struct RXConfig: every field's own default.
RXConfigDefault ==
    [data_rate |-> DataRateDefault, channel |-> u8Default, pa_level |-> PALevelDefault,
     pipe0_address |-> ZeroAddress, pipe1_address |-> None, pipe2_addr_lsb |-> None,
     pipe3_addr_lsb |-> None, pipe4_addr_lsb |-> None, pipe5_addr_lsb |-> None]

\* #[derive(Default)] pub struct TXConfig
TXConfigDefault ==
    [data_rate |-> DataRateDefault, channel |-> u8Default, pa_level |-> PALevelDefault,
     max_retries |-> u8Default, retry_delay |-> u8Default, pipe0_address |-> ZeroAddress]

\* A value a struct expression may give to a field, none of them the default.
Given(field) ==
    CASE field = "data_rate" -> "R250Kbps"
      [] field = "channel" -> 108
      [] field = "pa_level" -> "Low"
      [] field = "pipe0_address" -> <<100, 100, 97, 120, 114>>
      [] field = "pipe1_address" -> <<1, 2, 3, 4, 5>>
      [] field = "max_retries" -> 3
      [] field = "retry_delay" -> 2
      [] OTHER -> 200

\* The struct expressions S { fields.., ..Default::default() }: one for every
\* set of fields named, S::default() itself being the one that names none.
StructExprs(default) == {[f \in fields |-> Given(f)] : fields \in SUBSET DOMAIN default}

\* S { fields.., ..base }
StructUpdate(fields, base) ==
    [f \in DOMAIN base |-> IF f \in DOMAIN fields THEN fields[f] ELSE base[f]]

CallRXConfig ==
    op = "new" /\ \E e \in StructExprs(RXConfigDefault) : ValueCall("RXConfig", "rx_struct", e)

RXConfigMake == At("rx_struct") /\ ValueStep("idle", StructUpdate(arg, RXConfigDefault))

CallTXConfig ==
    op = "new" /\ \E e \in StructExprs(TXConfigDefault) : ValueCall("TXConfig", "tx_struct", e)

TXConfigMake == At("tx_struct") /\ ValueStep("idle", StructUpdate(arg, TXConfigDefault))

NextValue ==
    \/ CallRXConfig
    \/ RXConfigMake
    \/ CallTXConfig
    \/ TXConfigMake
    \/ CallPayloadNew
    \/ PayloadMake
    \/ CallRegister
    \/ RegEncode
    \/ RegDecode
    \/ CallAddressRegister
    \/ AddrNew
    \/ AddrEncode
    \/ AddrDecode

SpecValue == Init /\ [][NextValue]_vars

(* Both drivers, sending and receiving *)
\* A run of either driver that keeps to sending or to receiving: the choice
\* is made before the first call.
Scenarios == {"send", "receive"}

InitAny == Init \/ InitNrf

ChooseScenario ==
    /\ scenario = "any"
    /\ scenario' \in Scenarios
    /\ UNCHANGED <<live, pc, op, result, ret, ce, config, chipVars, empty, status, log,
                   ceAtCall, txAtCall, flushed, sentSinceTx, arg, payload, noneRun, rxChip,
                   pulsed, nrfVars>>

NextAny ==
    \/ ChooseScenario
    \/ scenario = "send" /\ "NRF24L01" \notin live /\ Next
    \/ scenario = "send" /\ "NRF24L01" \in live /\ NextNrf
    \/ scenario = "receive" /\ "NRF24L01" \notin live /\ NextRx
    \/ scenario = "receive" /\ "NRF24L01" \in live /\ NextNrfRx

(* The type-state driver with the one-transfer operations of              *)
(* Configuration, in a run that keeps to sending or to receiving.         *)
\* One argument for each operation that writes.
ModeWriteArgs ==
    {a \in CfgWriteArgs :
        \/ a.name = "set_rf" /\ a.rate = "R2Mbps" /\ a.power = 3
        \/ a.name \in {"set_pipes_rx_enable", "set_auto_ack"} /\ a.bools[1] /\ a.bools[2]
        \/ a.name = "set_tx_addr" /\ Len(a.addr) = 5
        \/ a.name = "clear_interrupts"}

ModeConfigArgs ==
    {a \in CfgConfigArgs :
        \/ a.name = "set_crc" /\ a.mode = "TwoBytes"
        \/ a.name = "set_interrupt_mask" /\ ~a.rx /\ ~a.tx /\ ~a.rt}

ModeLengths == {[i \in 1..PIPES_COUNT |-> IF i = 1 THEN None ELSE 32]}

ModeCfgCall ==
    \/ CallCfgCommand
    \/ CallCfgRead
    \/ CallCfgWriteOf(ModeWriteArgs)
    \/ CallCfgConfigOf(ModeConfigArgs)
    \/ CfgLive /\ \E c \in {76, 126} : CfgCall("set_frequency", "sf_write", c)
    \/ CfgLive /\ CfgCall("set_auto_retransmit", "sar_write", [delay |-> 2, count |-> 3])
    \/ CfgLive /\ \E l \in ModeLengths :
          CfgCall("set_pipes_rx_lengths", IF Dynpd(l) # 0 THEN "ur_read" ELSE "sp_dynpd", l)

ModeCfgStep ==
    \/ CfgOpStep
    \/ SetFrequencyWrite
    \/ SetAutoRetransmitWrite
    \/ UrRead
    \/ UrWrite
    \/ SpDynpd
    \/ SpRxPw

NextMode ==
    \/ ChooseScenario
    \/ scenario = "send" /\ (Next \/ ModeCfgCall \/ ModeCfgStep \/ CallSetRxAddr \/ SetRxAddrWrite)
    \/ scenario = "receive" /\ (NextRx \/ ModeCfgCall \/ ModeCfgStep)

SpecMode == Init /\ [][NextMode]_vars

SpecAny == InitAny /\ [][NextAny]_vars

(***************************************************************************)
(* Properties                                                              *)
(***************************************************************************)
\* The log starts with the FIFO_STATUS poll of the current loop iteration.
Polled == Len(log) > 0 /\ log[1].k = "ReadRegister" /\ log[1].a = FIFO_STATUS_ADDR

\* The transfers issued after that poll.
AfterPoll == Tail(SelectSeq(log, IsBus))

WePcs == {"we_read", "we_ce", "we_flush", "we_clear", "we_done", "sb_from"}

Returned(r) == pc = "idle" /\ result = r

HasEvent(k) == \E i \in 1..Len(log) : log[i].k = k

\* C1: in wait_empty, an iteration whose FIFO_STATUS read returned a status
\* byte with MAX_RT set issues FlushTx as its first transfer and, once that
\* succeeded, a STATUS write with TX_DS and MAX_RT set and RX_DR clear as
\* its second and last; the next FIFO_STATUS read, and the loop's exit, come
\* only after both succeeded, and an iteration cut short ended on a failed
\* transfer.
C1_FlushThenClearOnMaxRt ==
    (op \in WaitOps /\ Polled /\ log[1].ok /\ max_rt(log[1].st)) =>
        LET bus == AfterPoll IN
        /\ Len(bus) <= 2
        /\ Len(bus) >= 1 => bus[1].k = "FlushTx"
        /\ Len(bus) = 2 =>
             /\ bus[1].ok
             /\ bus[2].k = "WriteRegister"
             /\ bus[2].a = STATUS_ADDR
             /\ tx_ds(bus[2].v) /\ max_rt(bus[2].v) /\ ~rx_dr(bus[2].v)
        /\ (pc \in {"we_read", "we_done", "sb_from"} \/ Returned("Ok")) =>
             Len(bus) = 2 /\ bus[2].ok
        /\ Returned("Err") => Len(bus) >= 1 /\ ~Last(bus).ok

\* C1 witness: a second poll is about to be made after an iteration that saw
\* MAX_RT and flushed and cleared.
C1_Witness ==
    /\ op \in WaitOps /\ pc = "we_read"
    /\ Polled /\ log[1].ok /\ max_rt(log[1].st)
    /\ Len(AfterPoll) = 2

\* C2: a call of wait_empty (alone or inside standby) eventually returns,
\* whatever the TX FIFO holds, when the chip runs as the cached CONFIG says
\* (no CONFIG write was lost to a bus error).
C2_WaitEmptyReturns == (pc \in WePcs /\ config = chipConfig) ~> (pc = "idle")

\* C2 witness: wait_empty, called with a full TX FIFO, returned Ok from a
\* run in which a packet stuck with MAX_RT was flushed.
C2_Witness ==
    /\ op = "wait_empty" /\ Returned("Ok")
    /\ txAtCall = TxFifoCap
    /\ flushed

\* C3: in wait_empty, an iteration whose read reported the TX FIFO not empty
\* asserts CE right after the read; ce_disable is called only when the most
\* recent read reported empty; and CE is low when wait_empty returns Ok.
C3_CeLowOnlyAfterEmpty ==
    op \in WaitOps =>
        /\ (Polled /\ log[1].ok /\ ~tx_empty(log[1].v) /\ pc # "we_ce") =>
             /\ Len(log) >= 2 /\ log[2] = EvCe(TRUE)
             /\ ce
        /\ HasEvent("ce_disable") => (Polled /\ log[1].ok /\ tx_empty(log[1].v))
        /\ Returned("Ok") => ~ce

\* C3 witness: wait_empty, called with CE high, returned Ok with CE low.
C3_Witness == op = "wait_empty" /\ Returned("Ok") /\ ceAtCall /\ ~ce

\* C4: a mode transition that failed leaves the caller holding the device.
C4_FailedTransitionHandsBack ==
    (op \in {"rx", "tx", "tx_standby"} /\ Returned("Err")) => "Caller" \in live

\* C5: the Standby wrapper is created from Tx only after wait_empty ran to
\* its end: the last FIFO_STATUS read succeeded and reported the TX FIFO
\* empty, and wait_empty's ce_disable was made.
C5_StandbyOnlyAfterDrain ==
    (op = "tx_standby" /\ (pc = "sb_from" \/ "Standby" \in live)) =>
        /\ Polled /\ log[1].ok /\ tx_empty(log[1].v)
        /\ HasEvent("ce_disable")
        /\ pc = "idle" => result = "Ok"

\* C5 witness: standby() returned the Standby wrapper after a flush.
C5_Witness ==
    /\ op = "tx_standby" /\ Returned("Ok") /\ live = {"Standby"}
    /\ txAtCall > 0 /\ flushed

\* C6: at most one holder of the device at any time, and the Rx and the Tx
\* wrapper are created only while the Standby wrapper holds it.
C6_OneOwnerViaStandby ==
    /\ [](Cardinality(live) <= 1)
    /\ [][/\ ("Rx" \in live' /\ "Rx" \notin live) => live = {"Standby"}
          /\ ("Tx" \in live' /\ "Tx" \notin live) => live = {"Standby"}]_vars

\* C6 witness: the Rx wrapper holds the device after a round through Tx.
C6_Witness == live = {"Rx"} /\ txDs

\* C7: StandbyMode::rx raises CE once, as its last step, after update_config
\* returned Ok with PRIM_RX = 1 in the CONFIG it keeps and writes; when
\* update_config failed CE is untouched and no Rx wrapper exists.
C7_RxConfigThenCe ==
    op = "rx" =>
        /\ \A i \in 1..Len(log) :
             /\ IsBus(log[i]) =>
                  /\ log[i].k = "WriteRegister" /\ log[i].a = CONFIG_ADDR
                  /\ prim_rx(log[i].v)
             /\ log[i].k = "ce_enable" =>
                  /\ i = Len(log)
                  /\ prim_rx(config)
                  /\ \A j \in 1..(i - 1) : log[j].ok
        /\ pc = "rx_ce" => prim_rx(config) /\ ce = ceAtCall
        /\ Returned("Ok") => ce /\ live = {"Rx"} /\ Last(log) = EvCe(TRUE)
        /\ Returned("Err") => ce = ceAtCall /\ "Rx" \notin live /\ ~HasEvent("ce_enable")

\* C7 witness: rx() wrote CONFIG and then raised CE.
C7_Witness == op = "rx" /\ Returned("Ok") /\ Len(log) = 2 /\ log[1].ok

\* C8: while the Tx wrapper holds the device and no send was issued since it
\* was created, CE is low.
C8_CeLowUntilSend == ("Tx" \in live /\ ~sentSinceTx) => ~ce

\* C8 witness: wait_empty ran in Tx mode before any send.
C8_Witness == "Tx" \in live /\ ~sentSinceTx /\ op = "wait_empty" /\ Returned("Ok")

\* C9: when RxMode::standby has returned, and when TxMode::standby has
\* returned Ok, CE is low, lowered by the call's last step.
C9_StandbyLowersCe ==
    (op \in {"rx_standby", "tx_standby"} /\ Returned("Ok")) =>
        /\ ~ce
        /\ live = {"Standby"}
        /\ Last(log) = EvCe(FALSE)

\* C9 witness: RxMode::standby returned, called with CE high.
C9_Witness == op = "rx_standby" /\ Returned("Ok") /\ ceAtCall

\* C10: TxMode::send issues WriteTxPayload first and raises CE only after it
\* succeeded; it returns Ok with CE high, and returns the error of a failed
\* payload write with CE as it was at the call.
C10_SendWriteThenCe ==
    op = "send" =>
        /\ Len(log) >= 1 => log[1].k = "WriteTxPayload"
        /\ \A i \in 1..Len(log) : log[i].k = "ce_enable" => (i = 2 /\ log[1].ok)
        /\ pc \in {"send_write", "send_ce"} => ce = ceAtCall
        /\ Returned("Ok") => ce /\ Len(log) = 2 /\ log[2] = EvCe(TRUE)
        /\ Returned("Err") => ce = ceAtCall /\ Len(log) = 1 /\ ~log[1].ok

\* C10 witness: send returned Ok and raised a CE that was low.
C10_Witness == op = "send" /\ Returned("Ok") /\ ~ceAtCall /\ ce

(***************************************************************************)
(* NRF24L01: push and send                                                 *)
(***************************************************************************)
\* The FIFO_STATUS read that opens push reported a full TX FIFO.
PushSawFull == Bit(log[1].st, 0) = 1 \/ tx_full(log[1].v)

PayloadWrites == {"WriteTxPayload", "WriteAckPayload"}

\* C11: the TX FIFO holds three payloads.  A push that finds it full (the
\* fourth after three pushes with nothing sent in between) returns the
\* queue-full error after its FIFO_STATUS read and issues no payload write;
\* a push that finds room, with a payload of at most 32 bytes, issues exactly
\* one payload write and succeeds.  The queued payloads only leave the FIFO
\* by being sent.
C11_FourthPushQueueFull ==
    op = "push" =>
        /\ txCount <= TxFifoCap
        /\ (Len(log) >= 1 /\ log[1].ok /\ PushSawFull) =>
             Len(log) = 1 /\ Returned(QueueFullMsg)
        /\ Returned(QueueFullMsg) =>
             /\ Len(log) = 1 /\ log[1].ok /\ PushSawFull
             /\ txAtCall = TxFifoCap
             /\ txCount < TxFifoCap => txDs
        /\ Returned("Ok") =>
             /\ Len(log) = 2 /\ log[1].ok /\ ~PushSawFull
             /\ log[2].k \in PayloadWrites /\ log[2].ok /\ log[2].v = arg.len
             /\ arg.len <= 32
             /\ txAtCall < TxFifoCap \/ txDs \/ maxRt
             /\ txCount >= 1 \/ txDs
        /\ (pc = "idle" /\ Len(log) = 2 /\ log[2].ok) => result = "Ok"

\* C11 witness: a fourth push in a row returned the queue-full error and the
\* three payloads are still queued.
C11_Witness ==
    /\ op = "push" /\ Returned(QueueFullMsg)
    /\ txAtCall = TxFifoCap /\ txCount = TxFifoCap
    /\ ~txDs /\ ~maxRt

\* The length of the payload a call is handed: push's data, TxMode::send's
\* packet.
DataLen == IF op = "push" THEN arg.len ELSE IF op = "send" THEN arg ELSE 0

\* C12: a payload longer than 32 bytes handed to push or to TxMode::send is
\* rejected with an error before any bus transaction is issued, and nothing
\* is written to the TX FIFO.
C12_TooLargeRejectedFirst ==
    (op \in {"push", "send"} /\ DataLen > 32) =>
        /\ \A i \in 1..Len(log) : ~IsBus(log[i])
        /\ pc = "idle" => result # "Ok"
        /\ txCount <= txAtCall

(***************************************************************************)
(* Receiving                                                               *)
(***************************************************************************)
\* The width the chip reported to the running read or read_all.
WidthReported ==
    /\ op \in {"read", "read_all"}
    /\ Len(log) >= 1
    /\ \E i \in 1..Len(log) : log[i].k = "ReadRxPayloadWidth" /\ log[i].ok

\* C13: when the chip reports an RX payload width above 32, RxMode::read and
\* read_all flush the RX FIFO instead of issuing a payload read of that
\* width, and never read or index past the 32-byte payload buffer.
C13_WideWidthFlushes ==
    (WidthReported /\ width > 32) =>
        /\ pc # "panic"
        /\ \A i \in 1..Len(log) : log[i].k = "ReadRxPayload" => log[i].v <= 32
        /\ (pc = "idle" /\ result = "Ok") => HasEvent("FlushRx")

\* C14: when the reported RX payload width is 0, RxMode::read returns an
\* empty Payload and does not issue the ReadRxPayload command.
C14_ZeroWidthNoPayloadRead ==
    (op = "read" /\ WidthReported /\ width = 0) =>
        /\ ~HasEvent("ReadRxPayload")
        /\ Returned("Ok") => payload.len = 0

\* C15: can_read first writes STATUS with RX_DR, TX_DS and MAX_RT set (one
\* write that acknowledges the three interrupts), then reads FIFO_STATUS, and
\* returns Some(RX_P_NO of the status byte of that read) exactly when the
\* read reports rx_empty false, None otherwise.
C15_CanReadClearsThenReports ==
    op = "can_read" =>
        /\ Len(log) <= 2
        /\ Len(log) >= 1 =>
             /\ log[1].k = "WriteRegister" /\ log[1].a = STATUS_ADDR
             /\ log[1].v = Pow2(6) + Pow2(5) + Pow2(4)
        /\ Len(log) = 2 =>
             /\ log[1].ok
             /\ log[2].k = "ReadRegister" /\ log[2].a = FIFO_STATUS_ADDR
        /\ pc = "idle" => (result = "Ok") = (Len(log) = 2 /\ log[2].ok)
        /\ Returned("Ok") =>
             /\ Bit(log[2].v, 0) = 0 => ret = (log[2].st \div 2) % 8
             /\ Bit(log[2].v, 0) = 1 => ret = None
             /\ (ret # None) = (Bit(log[2].v, 0) = 0)

\* C15 witness: can_read returned Some(2) with a packet of pipe 2 at the
\* head of the RX FIFO, after acknowledging RX_DR.
C15_Witness ==
    /\ op = "can_read" /\ Returned("Ok") /\ ret = 2
    /\ rxFifo # <<>> /\ Head(rxFifo).pipe = 2
    /\ ~rxDr

\* C16: once the RX FIFO is drained, every can_read returns None, and the
\* steps of can_read change nothing but the three interrupt bits: CE, the
\* mode, CONFIG and both FIFOs stay as they are.
C16_DrainedCanReadIdempotent ==
    /\ []((op = "can_read" /\ Returned("Ok") /\ rxFifo = <<>>) =>
            (ret = None /\ noneRun >= 1))
    /\ [][(op' = "can_read" /\ log' # log) =>
            UNCHANGED <<ce, live, config, chipConfig, txCount, rxFifo>>]_vars

\* C16 witness: consecutive can_read calls on a drained RX FIFO each
\* returned None, and the receiver still listens.
C16_Witness ==
    /\ op = "can_read" /\ Returned("Ok") /\ ret = None
    /\ noneRun = NoneRunCap
    /\ rxFifo = <<>> /\ ~rxDr
    /\ live = {"Rx"} /\ ce

\* C17: RxMode::read issues ReadRxPayloadWidth and then ReadRxPayload for
\* exactly the reported width; for a width w of 0 to 32 it returns a Payload
\* of length w holding the w bytes the chip returned after the status byte.
C17_ReadReturnsReportedBytes ==
    op = "read" =>
        /\ Len(log) <= 2
        /\ Len(log) >= 1 => log[1].k = "ReadRxPayloadWidth"
        /\ Len(log) = 2 =>
             /\ log[1].ok
             /\ log[2].k = "ReadRxPayload" /\ log[2].v = log[1].v
        /\ pc = "idle" => (result = "Ok") = (Len(log) = 2 /\ log[2].ok)
        /\ (Returned("Ok") /\ log[1].v <= 32) =>
             /\ payload.len = log[1].v
             /\ Len(log[2].d) = log[1].v
             /\ as_ref(payload) = log[2].d

\* C17 witness: read returned the 32 bytes of a full-width packet.
C17_Witness ==
    /\ op = "read" /\ Returned("Ok")
    /\ log[1].v = 32
    /\ payload.len = 32 /\ as_ref(payload)[32] # 0

(***************************************************************************)
(* Configuration                                                           *)
(***************************************************************************)
\* C18: set_rx_addr with a pipe index outside 0..5 returns a checked error;
\* it neither panics nor issues a register write.
C18_BadPipeCheckedError ==
    (op = "set_rx_addr" /\ arg > 5) =>
        /\ pc # "panic"
        /\ ~HasEvent("WriteRegister")
        /\ pc \notin {"sra_write"} => Returned("Err")

(***************************************************************************)
(* NRF24L01::send                                                          *)
(***************************************************************************)
\* The bus event before the last one of the running call.
Before(q) == q[Len(q) - 1]

\* C19: when the chip raises MAX_RT, NRF24L01::send returns the max-retries
\* error, which is not the error of a failed transfer, after clearing MAX_RT
\* in STATUS; it issues no FLUSH_TX and the unsent payload stays queued.
C19_MaxRtKeepsPayload ==
    op = "NRF24L01::send" =>
        /\ pc = "s_clear_max_rt" => (max_rt(status) /\ maxRt)
        /\ ~HasEvent("FlushTx") /\ ~flushed
        /\ Returned(MaxRetriesMsg) =>
             /\ MaxRetriesMsg # BusErrorMsg
             /\ \A i \in 1..Len(log) : log[i].ok
             /\ Len(log) >= 2
             /\ Last(log).k = "WriteRegister" /\ Last(log).a = STATUS_ADDR
             /\ Last(log).v = Pow2(4)
             /\ max_rt(Before(log).st)
             /\ ~maxRt
             /\ txCount >= 1 /\ txCount <= txAtCall
        /\ (Returned("Ok") /\ txAtCall > 0) => ~max_rt(status)

\* C19 witness: send returned the max-retries error with two payloads queued
\* and MAX_RT cleared.
C19_Witness ==
    /\ op = "NRF24L01::send" /\ Returned(MaxRetriesMsg)
    /\ txCount = 2 /\ ~maxRt

\* C20: NRF24L01::send returns Ok only after a FIFO_STATUS read that reported
\* TX_EMPTY, and returns the max-retries error only after a status byte that
\* reported MAX_RT: it never returns success with packets it saw queued.
C20_SendOkOnlyWhenEmpty ==
    op = "NRF24L01::send" =>
        /\ Returned("Ok") =>
             /\ Len(log) >= 2
             /\ Before(log).k = "ReadRegister" /\ Before(log).a = FIFO_STATUS_ADDR
             /\ Before(log).ok /\ tx_empty(Before(log).v)
             /\ ~packets_left
             /\ txCount = 0
        /\ Returned(MaxRetriesMsg) =>
             /\ Len(log) >= 2
             /\ Before(log).k = "ReadRegister" /\ Before(log).a = OBSERVE_TX_ADDR
             /\ Before(log).ok /\ max_rt(Before(log).st)

\* C20 witness: send returned Ok after sending the three payloads that were
\* queued when it was called.
C20_Witness ==
    /\ op = "NRF24L01::send" /\ Returned("Ok")
    /\ txAtCall = TxFifoCap /\ txCount = 0

\* send's chip is a powered-up primary transmitter.
ChipIsPtx == pwr_up(chipConfig) /\ ~prim_rx(chipConfig)

ArcMax == 15

\* C22: on success NRF24L01::send returns the sum of the retransmit counts
\* (ARC_CNT, at most 15 each) of the packets this call sent, each packet
\* counted once, and the 8-bit counter does not overflow.
C22_RetriesCountedOnce ==
    op = "NRF24L01::send" =>
        /\ pc # "panic"
        /\ counter <= ArcMax * (txAtCall - txCount)
        /\ Returned("Ok") => ret <= ArcMax * txAtCall

(***************************************************************************)
(* NRF24L01: read_all and configure                                        *)
(***************************************************************************)
\* read_all between its ce.down() and its ce.restore_state().
RaStandbyPcs == {"ra_avail", "ra_width", "ra_read", "ra_clear", "ra_restore"}

C24_ConfigureEndsInStandby ==
    op = "configure" =>
        /\ log # <<>> => log[1] = EvCe(FALSE)
        /\ \A i \in 1..Len(log) : log[i] # EvCe(TRUE)
        /\ pc = "cfg_down" => log = <<>>
        /\ pc \in {"cfg_write", "cfg_power"} => (~ce /\ ~ceValue)
        /\ Returned("Ok") =>
             /\ ~ce
             /\ Last(log).k = "WriteRegister" /\ Last(log).a = CONFIG_ADDR
             /\ Last(log).ok
             /\ pwr_up(Last(log).v)
             /\ prim_rx(Last(log).v) = (arg.mode = "RX")
             /\ chipConfig = Last(log).v
             /\ \A i \in 1..(Len(log) - 1) : log[i].a # CONFIG_ADDR \/ ~IsBus(log[i])

\* C24 witness: a TX configuration succeeded on a device whose CE was high.
C24_Witness ==
    /\ op = "configure" /\ Returned("Ok")
    /\ arg.mode = "TX" /\ ceAtCall /\ ~ce
    /\ pwr_up(chipConfig) /\ ~prim_rx(chipConfig)

\* The successful writes of register a in the log of the running call.
WritesOf(a) ==
    SelectSeq(log, LAMBDA e : e.k = "WriteRegister" /\ e.a = a /\ e.ok)

\* configure got past its register writes.
ConfigureWrote == op = "configure" /\ (pc = "cfg_power" \/ Returned("Ok"))

\* C25: for every channel value 0..255 of an RXConfig or TXConfig, configure
\* writes RF_CH = min(channel, 125), once.
C25_ConfigureCapsChannel ==
    op = "configure" =>
        /\ \A i \in 1..Len(log) :
             (log[i].k = "WriteRegister" /\ log[i].a = RF_CH) =>
                 /\ log[i].v = (IF arg.channel <= 125 THEN arg.channel ELSE 125)
                 /\ log[i].v <= 125
        /\ ConfigureWrote => Len(WritesOf(RF_CH)) = 1

\* C25 witness: configure succeeded with channel 126 and wrote 125.
C25_Witness ==
    /\ ConfigureWrote /\ Returned("Ok")
    /\ arg.channel = 126 /\ arg.mode = "RX"
    /\ WritesOf(RF_CH)[1].v = 125

\* min(x, 15)
Min15(x) == IF x <= 15 THEN x ELSE 15

\* C26: for every max_retries and retry_delay, configure with a TXConfig
\* writes SETUP_RETR with ARC = min(max_retries, 15) in bits 3..0 and
\* ARD = min(retry_delay, 15) in bits 7..4; max_retries 3 and retry_delay 2
\* give ARC = 3 and ARD = 2.
C26_ConfigureClampsRetries ==
    (op = "configure" /\ arg.mode = "TX") =>
        /\ \A i \in 1..Len(log) :
             (log[i].k = "WriteRegister" /\ log[i].a = SETUP_RETR) =>
                 /\ (log[i].v % 16) = Min15(arg.max_retries)
                 /\ (log[i].v \div 16) = Min15(arg.retry_delay)
                 /\ (arg.max_retries = 3 /\ arg.retry_delay = 2) => log[i].v = 2 * 16 + 3
        /\ ConfigureWrote => Len(WritesOf(SETUP_RETR)) = 1

\* C26 witness: a TX configuration with max_retries 255 and retry_delay 16
\* succeeded and wrote ARC = 15, ARD = 15.
C26_Witness ==
    /\ ConfigureWrote /\ Returned("Ok") /\ arg.mode = "TX"
    /\ arg.max_retries = 255 /\ arg.retry_delay = 16
    /\ WritesOf(SETUP_RETR)[1].v = 255

\* C27: set_frequency returns normally for every channel 0..255, and the
\* write it issues, its only transfer, stores min(channel, 125) in RF_CH.
C27_SetFrequencyCaps ==
    op = "set_frequency" =>
        /\ pc # "panic"
        /\ \A i \in 1..Len(log) :
              /\ i = 1
              /\ log[i].k = "WriteRegister"
              /\ log[i].a = RF_CH
              /\ log[i].v = (IF arg <= 125 THEN arg ELSE 125)

\* C28: the SETUP_RETR write of set_auto_retransmit carries
\* ARD = min(delay, 15) in bits 7..4 and ARC = min(count, 15) in bits 3..0,
\* for every delay and count 0..255.
C28_SetAutoRetransmitClamps ==
    op = "set_auto_retransmit" =>
        \A i \in 1..Len(log) :
            /\ log[i].k = "WriteRegister"
            /\ log[i].a = SETUP_RETR
            /\ (log[i].v \div 16) = Min15(arg.delay)
            /\ (log[i].v % 16) = Min15(arg.count)

\* C29: update_register on a register other than CONFIG first reads that
\* register; it then writes it, with f applied to the value read, exactly
\* when that differs from the value read; it issues no other transfer, and
\* it returns f's result.
C29_UpdateRegisterWritesIffChanged ==
    (op = "update_register" /\ arg.reg # CONFIG_ADDR /\ Len(log) >= 1) =>
        /\ log[1].k = "ReadRegister" /\ log[1].a = arg.reg
        /\ Len(log) <= 2
        /\ pc = "ur_write" <=>
              (Len(log) = 1 /\ log[1].ok /\ FnApply(arg.f, log[1].v) # log[1].v)
        /\ Len(log) = 2 =>
              /\ log[1].ok
              /\ FnApply(arg.f, log[1].v) # log[1].v
              /\ log[2].k = "WriteRegister" /\ log[2].a = arg.reg
              /\ log[2].v = FnApply(arg.f, log[1].v)
        /\ Returned("Ok") =>
              /\ \A i \in 1..Len(log) : log[i].ok
              /\ Len(log) = 1 <=> FnApply(arg.f, log[1].v) = log[1].v
              /\ ret = FnResult(arg.f, log[1].v)
        /\ Returned("Err") => ~Last(log).ok

C29_Witness ==
    /\ op = "update_register" /\ Returned("Ok")
    /\ arg.f = "toggle_en_ack_pay" /\ Len(log) = 2
    /\ log[1].v = 4 /\ log[2].v = 6 /\ ret = 6

AnyNone(lengths) == \E i \in 1..PIPES_COUNT : lengths[i] = None

\* The place of the DYNPD write in the log, 0 before it is issued.
DynpdAt ==
    IF \E i \in 1..Len(log) : log[i].a = DYNPD
      THEN CHOOSE i \in 1..Len(log) : log[i].a = DYNPD
      ELSE 0

\* C30: in set_pipes_rx_lengths, (a) the one DYNPD write has bit i set
\* exactly for the pipes whose entry is None; (b) with no None entry FEATURE
\* is not touched, and with one the FEATURE transfers come first and the last
\* of them, when the DYNPD write is issued, is a successful read or write of
\* a value with EN_DPL set; (c) what follows the DYNPD write are the RX_PW
\* writes of pipes 0, 1, ... in that order, each with the entry's length
\* (below 64) or 0 for None, and a call that returns Ok has made all six.
C30_PipesRxLengths ==
    op = "set_pipes_rx_lengths" =>
        /\ \A i \in 1..Len(log) : log[i].a = DYNPD =>
              /\ i = DynpdAt
              /\ log[i].k = "WriteRegister"
              /\ log[i].v < Pow2(PIPES_COUNT)
              /\ \A p \in 1..PIPES_COUNT : (Bit(log[i].v, p - 1) = 1) <=> (arg[p] = None)
        /\ \A i \in 1..Len(log) : log[i].a = FEATURE =>
              /\ AnyNone(arg)
              /\ i <= 2
              /\ DynpdAt = 0 \/ i < DynpdAt
              /\ i = 1 => log[i].k = "ReadRegister"
              /\ i = 2 => /\ log[i].k = "WriteRegister"
                          /\ log[i].v = SetBit(log[1].v, 2, TRUE)
        /\ (AnyNone(arg) /\ DynpdAt > 0) =>
              /\ DynpdAt > 1
              /\ log[DynpdAt - 1].a = FEATURE
              /\ log[DynpdAt - 1].ok
              /\ Bit(log[DynpdAt - 1].v, 2) = 1
        /\ (~AnyNone(arg) /\ Len(log) > 0) => DynpdAt = 1
        /\ DynpdAt > 0 =>
              \A i \in (DynpdAt + 1)..Len(log) :
                  LET p == i - DynpdAt
                  IN  /\ p <= PIPES_COUNT
                      /\ log[i].k = "WriteRegister"
                      /\ log[i].a = RX_PW_P0 + p - 1
                      /\ log[i - 1].ok
                      /\ arg[p] = None => log[i].v = 0
                      /\ (arg[p] # None /\ arg[p] < 64) => log[i].v = arg[p]
        /\ Returned("Ok") =>
              /\ DynpdAt > 0
              /\ Len(log) = DynpdAt + PIPES_COUNT
              /\ \A i \in 1..Len(log) : log[i].ok

C30_Witness ==
    /\ op = "set_pipes_rx_lengths" /\ Returned("Ok")
    /\ arg = <<None, 63, 0, None, 63, 0>>
    /\ Len(log) = 9
    /\ log[1].v = 3 /\ log[2].v = 7 /\ log[3].v = 9
    /\ log[5].v = 63

Min5(x) == IF x <= 5 THEN x ELSE 5

\* C31: the one payload transfer of NRF24L01::push is 1 + len(data) bytes
\* long, the data following the command byte; the command byte is 0xA0
\* (W_TX_PAYLOAD) whatever pipe_num is when the device is configured as
\* transmitter, and 0xA8 + min(pipe_num, 5) (W_ACK_PAYLOAD | pipe) when it is
\* configured as receiver.
C31_PushCommandByMode ==
    op = "push" =>
        \A i \in 1..Len(log) : log[i].k # "ReadRegister" =>
            /\ i = 2
            /\ Len(log[i].d) = 1 + arg.len
            /\ \A j \in 1..arg.len : log[i].d[j + 1] = PushData(arg.len)[j]
            /\ is_receiver => /\ log[i].d[1] = 168 + Min5(arg.pipe_num)
                              /\ log[i].k = "WriteAckPayload"
                              /\ log[i].a = Min5(arg.pipe_num)
            /\ ~is_receiver => /\ log[i].d[1] = 160
                               /\ log[i].k = "WriteTxPayload"

C31_Witness ==
    /\ op = "push" /\ Returned("Ok") /\ is_receiver
    /\ arg.pipe_num = 6 /\ Len(log) = 2 /\ log[2].d = <<173, 1, 2>>

\* C32: a transfer that failed is the last transfer of its call, and the
\* call has returned the bus error: the failed transfer is not issued again
\* and nothing follows it on the bus.
C32_BusErrorEndsCall ==
    \A i \in 1..Len(log) : (IsBus(log[i]) /\ ~log[i].ok) =>
        /\ \A j \in (i + 1)..Len(log) : ~IsBus(log[j])
        /\ pc = "idle"
        /\ result \in {"Err", BusErrorMsg}

C32_Witness ==
    /\ op = "NRF24L01::send" /\ Returned(BusErrorMsg)
    /\ Len(log) >= 2 /\ ~Last(log).ok /\ Last(log).a = OBSERVE_TX_ADDR

\* C33: decode(encode(x)) = x.  A one-byte register of any content 0..255
\* decodes from its encoding to the same byte, and the encoding is one byte;
\* an address register made of 3, 4 or 5 bytes encodes to those bytes and
\* decodes from them to the same address and the same length.
C33_RegisterRoundTrip ==
    /\ (op = "Register" /\ pc = "reg_decode") => Len(ret) = 1
    /\ (op = "Register" /\ pc = "idle") => ret = arg
    /\ (op = "AddressRegister" /\ Len(arg) \in {3, 4, 5}) =>
          /\ pc # "panic"
          /\ pc \in {"addr_decode", "idle"} => ret[2] = arg
          /\ pc = "idle" => /\ ret[3] = ret[1]
                            /\ ret[3].len = Len(arg)
                            /\ SubSeq(ret[3].addr, 1, ret[3].len) = arg

C33_Witness ==
    /\ op = "AddressRegister" /\ Returned("Ok")
    /\ arg = <<255, 0, 1>> /\ ret[3].len = 3 /\ ret[3].addr = <<255, 0, 1, 0, 0>>

MinCap(n) == IF n <= 32 THEN n ELSE 32

\* C34: Payload::new of a source of n bytes has len() = min(n, 32), at most
\* 32, and as_ref() is the first min(n, 32) bytes of the source, for n = 0,
\* for n up to 32 and for n above 32.
C34_PayloadAtMost32 ==
    (op = "Payload::new" /\ pc = "idle") =>
        /\ ret = MinCap(Len(arg))
        /\ payload.len = ret
        /\ payload.len <= 32
        /\ Len(as_ref(payload)) = MinCap(Len(arg))
        /\ \A i \in 1..MinCap(Len(arg)) : as_ref(payload)[i] = arg[i]

C34_Witness ==
    /\ op = "Payload::new" /\ Returned("Ok")
    /\ Len(arg) = 34 /\ ret = 32 /\ as_ref(payload)[32] = (32 * 7) % 256

\* The value a field has when the struct expression names it, else `dflt`.
FieldIs(f, dflt) == ret[f] = (IF f \in DOMAIN arg THEN arg[f] ELSE dflt)

\* C35: RXConfig::default() has data rate 1 Mbps, channel 0, PA level Min, a
\* pipe 0 address of five zero bytes and pipes 1 to 5 disabled;
\* TXConfig::default() has data rate 1 Mbps, channel 0, PA level Min,
\* max_retries 0, retry_delay 0 and a pipe 0 address of five zero bytes; a
\* struct expression ending in ..Default::default() has the fields it names
\* as given and every other field at these values.
C35_DefaultConfigurations ==
    /\ (op = "RXConfig" /\ pc = "idle") =>
          /\ DOMAIN ret = {"data_rate", "channel", "pa_level", "pipe0_address", "pipe1_address",
                           "pipe2_addr_lsb", "pipe3_addr_lsb", "pipe4_addr_lsb", "pipe5_addr_lsb"}
          /\ FieldIs("data_rate", "R1Mbps")
          /\ FieldIs("channel", 0)
          /\ FieldIs("pa_level", "Min")
          /\ FieldIs("pipe0_address", <<0, 0, 0, 0, 0>>)
          /\ FieldIs("pipe1_address", None)
          /\ FieldIs("pipe2_addr_lsb", None)
          /\ FieldIs("pipe3_addr_lsb", None)
          /\ FieldIs("pipe4_addr_lsb", None)
          /\ FieldIs("pipe5_addr_lsb", None)
    /\ (op = "TXConfig" /\ pc = "idle") =>
          /\ DOMAIN ret = {"data_rate", "channel", "pa_level", "max_retries", "retry_delay",
                           "pipe0_address"}
          /\ FieldIs("data_rate", "R1Mbps")
          /\ FieldIs("channel", 0)
          /\ FieldIs("pa_level", "Min")
          /\ FieldIs("max_retries", 0)
          /\ FieldIs("retry_delay", 0)
          /\ FieldIs("pipe0_address", <<0, 0, 0, 0, 0>>)

\* tests::rx_partial_defaults
C35_Witness ==
    /\ op = "RXConfig" /\ Returned("Ok")
    /\ DOMAIN arg = {"channel", "data_rate", "pa_level", "pipe0_address"}
    /\ ret.channel = 108 /\ ret.pipe1_address = None

\* The operations of Configuration and the queries of RxMode.
FrameOps ==
    {"set_frequency", "set_auto_retransmit", "set_pipes_rx_lengths", "set_rx_addr"}
        \cup CfgCommands \cup CfgReads
        \cup {a.name : a \in CfgWriteArgs} \cup {a.name : a \in CfgConfigArgs}
        \cup RxQueries \cup {"can_read", "read"}

\* C36: no step of a Configuration operation or of an RxMode query, from its
\* call to the next call, changes the CE line or PRIM_RX in the driver's
\* CONFIG, nor PRIM_RX in the chip's CONFIG when the chip holds what the
\* driver believes it holds; and so CE is high whenever an RxMode wrapper
\* exists and low whenever a StandbyMode wrapper exists.
C36_ConfigurationKeepsMode ==
    /\ [][op' \in FrameOps =>
             /\ ce' = ce
             /\ prim_rx(config') = prim_rx(config)
             /\ config = chipConfig => prim_rx(chipConfig') = prim_rx(chipConfig)]_vars
    /\ []("Rx" \in live => ce)
    /\ []("Standby" \in live => ~ce)

C36_Witness ==
    /\ op = "set_crc" /\ Returned("Ok") /\ "Rx" \in live /\ ce
    /\ Len(log) = 1 /\ Bit(chipConfig, 2) = 1 /\ prim_rx(chipConfig) /\ rxFifo # <<>>

\* C37: wait_empty, and standby through it, returns Err exactly when a bus
\* transfer of the call failed and Ok(()) otherwise, whether or not the call
\* flushed the TX FIFO because of MAX_RT: the unit value it returns is the
\* same for a run whose packets were sent and one whose packets were
\* discarded.
C37_WaitEmptyOkWithoutBusError ==
    (op \in WaitOps /\ pc = "idle") =>
        /\ result \in {"Ok", "Err"}
        /\ result = "Err" <=> \E i \in 1..Len(log) : IsBus(log[i]) /\ ~log[i].ok
        /\ ret = 0

\* C37 witness: standby(self) returned the StandbyMode from a run of
\* wait_empty that flushed the TX FIFO.
C37_Witness ==
    /\ op = "tx_standby" /\ Returned("Ok") /\ "Standby" \in live
    /\ flushed /\ txAtCall >= 1

\* The bus transfers of the call so far.
BusLog == SelectSeq(log, IsBus)

ConfigWritten == \E i \in 1..Len(log) : log[i].k = "WriteRegister" /\ log[i].a = CONFIG_ADDR

BaseOf(m) == IF m.mode = "RX" THEN ReceiverBase ELSE TransmitterBase

C39_ReadAllBoundedLoop ==
    op = "read_all" =>
        /\ pc # "panic"
        /\ pc = "ra_read" => width + 1 <= RaBufferLen
        /\ (pc = "ra_avail" /\ Len(log) >= 2 /\ log[2].k = "ReadRxPayloadWidth" /\ log[2].ok) =>
             /\ Len(log) = 3
             /\ log[3].k = "ReadRxPayload" /\ log[3].ok
        /\ pc = "ra_clear" => ~data_available(log[1].v)
        /\ Returned("Ok") => ret = count

====
